---- MODULE Spec2Model ----
(***************************************************************************)
(* The pipeline orchestrator of adflow-api: the project status machine     *)
(* (core/orchestrator.py run_pipeline, continue_after_answers,             *)
(* _continue_pipeline), the create-review-revise loop                      *)
(* (_create_with_review), the in-memory project and artifact stores and    *)
(* the request handlers that schedule pipeline tasks (routes/projects.py). *)
(*                                                                         *)
(* Python objects are references: an Artifact handed to save_artifact is   *)
(* the same object the loop later mutates.  The model therefore keeps a    *)
(* heap of artifact objects per project and lets artifacts_db hold heap    *)
(* indices.  A background task is one coroutine; one action of the model   *)
(* is the code a coroutine runs between two awaits.                        *)
(***************************************************************************)
EXTENDS Integers, Sequences, FiniteSets, TLC

\* ---------------------------------------------------------------- bounds
\* Background tasks scheduled over a behaviour.
MaxTasks == 2
\* Rejecting review verdicts returned over a behaviour of one pipeline
\* (SpecRun): one more than a revision loop takes.
MaxRejects == 4
\* Rejecting review verdicts returned over a behaviour with interleaved
\* tasks or requests (Spec, SpecReq).
MaxRejectsInterleaved == 1
\* Failing external calls (ingestion, analysis, creation, review) over a
\* behaviour.
MaxFailures == 1
\* User edits accepted over a behaviour (SpecSeq).
MaxEdits == 1
\* Refinement requests accepted over a behaviour (SpecSeq).
MaxRefinements == 2
\* Artifacts saved over a behaviour of the store alone (SpecStore).
MaxStored == 3
\* Observers registered over a behaviour (SpecObs).
MaxObservers == 2

\* ------------------------------------------------------ program constants
max_revisions == 3

ProjectIds == {"p1", "p2"}

\* ProjectStatus (models/project.py)
CREATED == "created"
ANALYZING == "analyzing"
QUESTIONS == "questions"
STRATEGY == "strategy"
HYPOTHESES == "hypotheses"
COPYWRITING == "copywriting"
DESIGN == "design"
COMPLETED == "completed"
FAILED == "failed"

\* ArtifactStatus (models/artifact.py)
PENDING == "pending"
REVIEW == "review"
REVISION == "revision"
APPROVED == "approved"
USER_EDITED == "user_edited"

\* ----------------------------------------------- values of external calls
\* Review scores the reviewing capability may return (ReviewResult.score is
\* 0..10; the values on both sides of the acceptance threshold are drawn).
Scores == {7, 8}
Verdicts == [approved : BOOLEAN, score : Scores, feedback : {"fb"},
             revision_instructions : {"none"}]
PlainVerdicts == {v \in Verdicts : v.approved = (v.score >= 8)}
\* The plain verdicts and the rejections that carry revision instructions,
\* empty or not.
InstructedVerdicts ==
    PlainVerdicts \cup
    {[approved |-> FALSE, score |-> 7, feedback |-> "fb", revision_instructions |-> ri] :
        ri \in {"", "instructions"}}
\* Question lists an analysis may return.
QuestionLists == {<<>>, <<"q1", "q2">>}
\* PlatformStrategy(platform=..., enabled=...)
Platform(name, enabled) == [platform |-> name, enabled |-> enabled]
\* Platform lists of a strategy the strategist may return.
PlatformSets == {{Platform("telegram_ads", TRUE)},
                 {Platform("vk_ads", TRUE), Platform("telegram_ads", TRUE)}}
PlainPlatformSets == {{Platform("telegram_ads", TRUE)}}
\* Platform lists without an enabled platform that needs banners.
NoVisualPlatformSets == {{}, {Platform("telegram_seeding", TRUE)},
                         {Platform("vk_ads", FALSE), Platform("telegram_ads", TRUE)},
                         {Platform("yandex_direct", FALSE)}}
\* Answer payloads a client may submit.
Payloads == {<<>>, [budget |-> "30000"]}
\* The JSON number 1e999, which the request body parser reads as the float
\* infinity; every other payload value is a string.
FloatInfinity == "1e999"
\* Answer payloads with a budget or a target_cpa that is not an integer.
MalformedPayloads == {[budget |-> "abc"], [target_cpa |-> "12 rub"],
                      [budget |-> "30000", target_cpa |-> ""],
                      [budget |-> FloatInfinity]}
\* An answer payload with a budget of zero.
ZeroBudgetPayloads == {[budget |-> "0"]}
\* ArtifactType (models/artifact.py), the types the pipeline writes.
ArtifactTypes == {"brief", "questions", "strategy", "hypotheses", "copy", "banners"}
\* The types a client edits: the one a resumption patches and the one the
\* refinements rewrite.
EditedTypes == {"questions", "copy"}
\* The content a client sends with an edit.
EditedContent == [text |-> "edited"]

NoOutput == [kind |-> "none"]
NoInterview == [set |-> FALSE]
NoSettings == [set |-> FALSE]
NoRequest == [task_type |-> "none"]
NoReport == [status |-> "none", stage |-> 0]

VARIABLES
    projects_db,        \* routes/projects.py projects_db: id -> Project
    artifacts_db,       \* routes/artifacts.py artifacts_db: id -> list of Artifact (heap indices)
    heap,               \* per project, its Artifact objects in allocation order
    waiting_projects,   \* Orchestrator.waiting_projects: the paused contexts
    tasks,              \* the background tasks, in scheduling order, and the
                        \* refinement handlers suspended at their await
    reply,              \* the reply of the latest request
    rejects,            \* rejecting verdicts returned so far
    failures,           \* failing external calls so far
    event_callbacks,    \* Orchestrator.event_callbacks: the registered observers,
                        \* each with the calls it has received
    stream              \* the status stream of a client: the position of its
                        \* generator and the status it reported last

vars == <<projects_db, artifacts_db, heap, waiting_projects, tasks, reply,
          rejects, failures, event_callbacks, stream>>

\* ------------------------------------------------------------ the world
\* The shared state a task step reads and writes, threaded through the
\* helpers; a step result r pairs it (r.w) with the task's own record (r.tk).
World == [projects_db |-> projects_db, artifacts_db |-> artifacts_db, heap |-> heap,
          waiting_projects |-> waiting_projects]

Commit(w) ==
    /\ projects_db' = w.projects_db
    /\ artifacts_db' = w.artifacts_db
    /\ heap' = w.heap
    /\ waiting_projects' = w.waiting_projects

\* _emit_event, recorded in the emitting task's own log.
emit_event(tk, e) == [tk EXCEPT !.events = Append(@, e)]

Artifact(p, ty, st, ver, content, agent) ==
    [project_id |-> p, type |-> ty, status |-> st, version |-> ver,
     content |-> content, agent_name |-> agent, review_notes |-> "none",
     user_feedback |-> "none"]

\* Artifact(...): allocate a new object; its reference is Len(heap[p]).
new_artifact(w, a) == [w EXCEPT !.heap[a.project_id] = Append(@, a)]

\* An artifact that is created and not stored.
save_artifact_skipped(w, p, ref) == w

\* save_artifact(artifact): append the reference to the project's list.
save_artifact(w, p, ref) == [w EXCEPT !.artifacts_db[p] = Append(@, ref)]

\* Variant: the store keeps a copy, so a later assignment to the object is
\* lost to it.
set_status_on_copy(w, p, ref, st) == w

\* artifact.status = ...: an assignment to the object, seen through every
\* reference to it.
set_status(w, p, ref, st) == [w EXCEPT !.heap[p][ref].status = st]

\* Variant: the entry saved last among those of the type.
get_last_saved(w, p, ty) ==
    LET lst == w.artifacts_db[p]
        matching == {i \in 1..Len(lst) : w.heap[p][lst[i]].type = ty}
    IN  IF matching = {} THEN 0
        ELSE lst[CHOOSE i \in matching : \A j \in matching : j <= i]

\* get_latest_artifact: max(matching, key=version) is the first entry, in
\* list order, among those of maximal version; 0 stands for None.
get_latest_artifact(w, p, ty) ==
    LET lst == w.artifacts_db[p]
        h == w.heap[p]
        matching == {i \in 1..Len(lst) : h[lst[i]].type = ty}
        best == {i \in matching :
                    \A j \in matching :
                        \/ h[lst[j]].version < h[lst[i]].version
                        \/ (h[lst[j]].version = h[lst[i]].version /\ i <= j)}
    IN  IF matching = {} THEN 0 ELSE lst[CHOOSE i \in best : TRUE]

\* Variant: one status and stage index kept for all projects.
SetStatusOfAll(w, p, st, stage) ==
    [w EXCEPT !.projects_db =
        [q \in DOMAIN @ |-> [@[q] EXCEPT !.status = st, !.current_stage = stage]]]

\* project.status = ...; project.current_stage = ...
SetStatus(w, p, st, stage) ==
    [w EXCEPT !.projects_db[p].status = st, !.projects_db[p].current_stage = stage]

\* ------------------------------------------------------------------ tasks
\* A task record: the coroutine's position (pc, stg), its local variables
\* and, as history, what it has emitted (events), the agent.execute calls of
\* the loop it is in (calls), the artifacts that loop has saved (written),
\* the review responses it has received (reviews) and one summary per loop
\* it has returned from (loops).
NewTask(kind, p, answers) ==
    [kind |-> kind, project |-> p, pc |-> "scheduled", answers |-> answers,
     interview |-> NoInterview, stg |-> 0, revisions |-> 0,
     req |-> NoRequest, artifact |-> 0, output |-> NoOutput,
     strategy |-> NoOutput, hypotheses |-> NoOutput, creatives |-> NoOutput,
     banners |-> NoOutput,
     events |-> <<>>, calls |-> 0, written |-> <<>>, reviews |-> <<>>,
     loops |-> <<>>]

StageType(stg) ==
    CASE stg = 3 -> "strategy" [] stg = 4 -> "hypotheses"
      [] stg = 5 -> "copy" [] stg = 6 -> "banners"

StageAgent(stg) ==
    CASE stg = 3 -> "strategist" [] stg = 4 -> "strategist"
      [] stg = 5 -> "copywriter" [] stg = 6 -> "designer"

StageName(stg) ==
    CASE stg = 1 -> "analyzing" [] stg = 3 -> "strategy" [] stg = 4 -> "hypotheses"
      [] stg = 5 -> "copywriting" [] stg = 6 -> "design"

StageStatus(stg) ==
    CASE stg = 1 -> ANALYZING [] stg = 3 -> STRATEGY [] stg = 4 -> HYPOTHESES
      [] stg = 5 -> COPYWRITING [] stg = 6 -> DESIGN

\* Variant: an except clause that marks the project and re-raises without
\* emitting the error event.
RaiseWithoutEvent(w, tk, msg) ==
    [w |-> [w EXCEPT !.projects_db[tk.project].status = FAILED,
                     !.projects_db[tk.project].error_message = msg],
     tk |-> [tk EXCEPT !.pc = "raised"]]

\* The except clause of run_pipeline and continue_after_answers.
Raise(w, tk, msg) ==
    LET p == tk.project
        w1 == [w EXCEPT !.projects_db[p].status = FAILED,
                        !.projects_db[p].error_message = msg]
    IN  [w |-> w1,
         tk |-> [emit_event(tk, [type |-> "pipeline_error", error |-> msg])
                    EXCEPT !.pc = "raised"]]

\* Variant: a loop test that never compares the counter with the limit.
LoopContinuesUnbounded(revisions) == revisions >= 0

\* while revisions < self.max_revisions
LoopContinues(revisions) == revisions < max_revisions

\* Variant: acceptance that needs both the flag and the score.
AcceptsBoth(review) == review.approved /\ review.score >= 8

\* if review.approved or review.score >= 8
Accepts(review) == review.approved \/ review.score >= 8

\* ------------------------------------------------------ _create_with_review
\* _create_with_review up to its first await: revisions = 0, the loop test
\* and the call of agent.execute(task).  A loop test that fails at once
\* reaches `return output` with output unbound.
BeginLoop(w, tk, stg, req) ==
    LET tk1 == [tk EXCEPT !.stg = stg, !.revisions = 0, !.req = req, !.artifact = 0,
                          !.output = NoOutput, !.calls = 0, !.written = <<>>,
                          !.reviews = <<>>]
    IN  IF LoopContinues(0)
        THEN [w |-> w, tk |-> [tk1 EXCEPT !.pc = "create", !.calls = 1]]
        ELSE Raise(w, tk1, "UnboundLocalError")

\* AgentTask(task_type=CREATE, context=...)
CreateRequest(ctx) ==
    [task_type |-> "create", input_data |-> NoOutput, context |-> ctx,
     feedback |-> "none"]

\* Variant: a revise request whose context holds the feedback alone.
ReviseRequestBare(req, output, review) ==
    [task_type |-> "revise", input_data |-> output, context |-> <<>>,
     feedback |-> IF review.revision_instructions \notin {"none", ""}
                  THEN review.revision_instructions ELSE review.feedback]

\* AgentTask(task_type=REVISE, input_data=output, context={**task.context,
\* "feedback": review.revision_instructions or review.feedback})
ReviseRequest(req, output, review) ==
    [task_type |-> "revise", input_data |-> output, context |-> req.context,
     feedback |-> IF review.revision_instructions \notin {"none", ""}
                  THEN review.revision_instructions ELSE review.feedback]

\* A return statement of _create_with_review, recorded in the task's history.
ReturnOutput(tk, how) ==
    [tk EXCEPT !.loops = Append(@, [stg |-> tk.stg, calls |-> tk.calls,
                                    written |-> tk.written, reviews |-> tk.reviews,
                                    output |-> tk.output, exit |-> how])]

\* ------------------------------------------------------- _continue_pipeline
\* project.status = ...; project.current_stage = ...; _emit_event("stage_start")
StartStage(w, tk, stg) ==
    [w |-> SetStatus(w, tk.project, StageStatus(stg), stg),
     tk |-> emit_event(tk, [type |-> "stage_start", stage |-> stg,
                            name |-> StageName(stg)])]

\* Variant: the completion event emitted with the status left at DESIGN.
FinalizeUnmarked(w, tk) ==
    [w |-> w,
     tk |-> [emit_event(tk, [type |-> "pipeline_complete", project_id |-> tk.project])
                EXCEPT !.pc = "done"]]

\* Stage 7: project.status = COMPLETED; _emit_event("pipeline_complete")
Finalize(w, tk) ==
    [w |-> SetStatus(w, tk.project, COMPLETED, 7),
     tk |-> [emit_event(tk, [type |-> "pipeline_complete", project_id |-> tk.project])
                EXCEPT !.pc = "done"]]

\* Variant: every listed platform that is not a telegram platform, enabled
\* or not.
platforms_listed(strategy) ==
    {pl.platform : pl \in {q \in strategy.platforms :
                              q.platform \notin {"telegram_ads", "telegram_seeding"}}}

\* for platform in strategy.platforms: enabled and not a telegram platform
platforms_needing_banners(strategy) ==
    {pl.platform : pl \in {q \in strategy.platforms :
                              q.enabled /\ q.platform \notin {"telegram_ads",
                                                              "telegram_seeding"}}}

\* BannerSet(banners=[], total_count=0)
EmptyBannerSet == [kind |-> "banners", n |-> 0, total_count |-> 0]

\* _continue_pipeline from the return of the loop of stage tk.stg, with
\* output `out`, to the next await or to the end.
AfterStage(w, tk, out) ==
    CASE tk.stg = 3 ->
            LET s == StartStage(w, [tk EXCEPT !.strategy = out], 4)
            IN  BeginLoop(s.w, s.tk, 4,
                    CreateRequest([output_type |-> "hypotheses", strategy |-> out,
                                   interview |-> tk.interview]))
      [] tk.stg = 4 ->
            LET s == StartStage(w, [tk EXCEPT !.hypotheses = out], 5)
            IN  BeginLoop(s.w, s.tk, 5,
                    CreateRequest([hypotheses |-> out, strategy |-> tk.strategy]))
      [] tk.stg = 5 ->
            LET s == StartStage(w, [tk EXCEPT !.creatives = out], 6)
            IN  IF platforms_needing_banners(tk.strategy) = {}
                THEN Finalize(s.w, [s.tk EXCEPT !.stg = 6, !.banners = EmptyBannerSet])
                ELSE BeginLoop(s.w, s.tk, 6,
                        CreateRequest([creatives |-> out, strategy |-> tk.strategy]))
      [] tk.stg = 6 -> Finalize(w, [tk EXCEPT !.banners = out])

\* _continue_pipeline from its start to the first await of the strategy stage.
continue_pipeline(w, tk, interview) ==
    LET s == StartStage(w, [tk EXCEPT !.interview = interview], 3)
    IN  BeginLoop(s.w, s.tk, 3,
            CreateRequest([interview |-> interview,
                           settings |-> w.projects_db[tk.project].settings]))

\* ClientInterview()
DefaultInterview ==
    [set |-> TRUE, budget_monthly |-> <<>>, target_cpa |-> <<>>,
     primary_goal |-> "leads",
     secondary_goals |-> <<>>, target_audience_description |-> ""]

\* The calls all observers have received so far.
RECURSIVE CallCount(_)
CallCount(cbs) ==
    IF cbs = <<>> THEN 0 ELSE Len(cbs[Len(cbs)].calls) + CallCount(SubSeq(cbs, 1, Len(cbs) - 1))

\* cb(event_type, data): the observer receives the call; one of kind
\* "raises" then raises an Exception.
call(cbs, i, e) ==
    [cbs EXCEPT ![i].calls = Append(@, [event |-> e, seq |-> CallCount(cbs) + 1])]

\* The loop of the variant below, from the i-th observer on.
RECURSIVE CallUncaughtFrom(_, _, _)
CallUncaughtFrom(cbs, i, e) ==
    IF i > Len(cbs) THEN cbs
    ELSE IF cbs[i].kind = "raises" THEN call(cbs, i, e)
    ELSE CallUncaughtFrom(call(cbs, i, e), i + 1, e)

\* The loop of _emit_event from the i-th observer on: an exception of the
\* call is caught and the loop goes on.
RECURSIVE CallFrom(_, _, _)
CallFrom(cbs, i, e) ==
    IF i > Len(cbs) THEN cbs ELSE CallFrom(call(cbs, i, e), i + 1, e)

\* Variant: a loop without try/except, which an observer's exception ends.
call_uncaught(cbs, e) == CallUncaughtFrom(cbs, 1, e)

\* for cb in self.event_callbacks: try: cb(event_type, data) except
\* Exception: pass
call_callbacks(cbs, e) == CallFrom(cbs, 1, e)

\* The events a step emits, delivered one after the other.
RECURSIVE Deliver(_, _)
Deliver(cbs, es) ==
    IF es = <<>> THEN cbs ELSE Deliver(call_callbacks(cbs, Head(es)), Tail(es))

\* One step of task t with result r; what the step has emitted has been
\* delivered to the observers.
Step(t, r) ==
    /\ tasks' = [tasks EXCEPT ![t] = r.tk]
    /\ Commit(r.w)
    /\ event_callbacks' =
          Deliver(event_callbacks,
                  SubSeq(r.tk.events, Len(tasks[t].events) + 1, Len(r.tk.events)))
    /\ UNCHANGED stream

\* ------------------------------------------------ responses of external calls
Failure == [success |-> FALSE]
ParseResponses == {Failure, [success |-> TRUE]}
AnalysisResponses ==
    {Failure} \cup {[success |-> TRUE, questions |-> qs] : qs \in QuestionLists}
\* The k-th output a loop's agent produces; a strategy names its platforms.
CreateResponses(tk, platformSets) ==
    {Failure} \cup
    IF tk.stg = 3
    THEN {[success |-> TRUE,
           output |-> [kind |-> "strategy", n |-> tk.calls, platforms |-> ps]] :
             ps \in platformSets}
    ELSE {[success |-> TRUE, output |-> [kind |-> StageType(tk.stg), n |-> tk.calls]]}
ReviewResponses(verdicts) ==
    {Failure} \cup {[success |-> TRUE, output |-> v] : v \in verdicts}

Counted(resp) == failures' = IF resp.success THEN failures ELSE failures + 1

\* --------------------------------------------------------------- run_pipeline
\* run_pipeline from its start to the await of parser_service.parse.
RunStart(t) ==
    /\ tasks[t].kind = "run" /\ tasks[t].pc = "scheduled"
    /\ Step(t, LET s == StartStage(World, tasks[t], 1)
               IN  [w |-> s.w, tk |-> [s.tk EXCEPT !.pc = "parse", !.stg = 1]])
    /\ UNCHANGED <<reply, rejects, failures>>

\* parser_service.parse returns (pm.execute is awaited next) or raises.
ParseReturn(t, resp) ==
    /\ tasks[t].pc = "parse"
    /\ IF resp.success
       THEN Step(t, [w |-> World, tk |-> [tasks[t] EXCEPT !.pc = "analyze"]])
       ELSE Step(t, Raise(World, tasks[t], "fetch error"))
    /\ Counted(resp)
    /\ UNCHANGED <<reply, rejects>>

\* The analysis returns: the rest of _stage_analyze, then run_pipeline up to
\* the pause or to the first await of the strategy stage.
\* A run that keeps its task waiting for the answers instead of returning.
SuspendBlocked(w, tk, qs) ==
    [w |-> [SetStatus(w, tk.project, QUESTIONS, 2) EXCEPT
              !.waiting_projects =
                 (tk.project :> [analysis |-> qs, stage |-> "questions"]) @@ @],
     tk |-> [emit_event(tk, [type |-> "questions_ready",
                             project_id |-> tk.project, questions |-> qs])
                EXCEPT !.pc = "blocked"]]

\* The pause at QUESTIONS: the paused context is stored and the run returns.
Suspend(w, tk, qs) ==
    [w |-> [SetStatus(w, tk.project, QUESTIONS, 2) EXCEPT
              !.waiting_projects =
                 (tk.project :> [analysis |-> qs, stage |-> "questions"]) @@ @],
     tk |-> [emit_event(tk, [type |-> "questions_ready",
                             project_id |-> tk.project, questions |-> qs])
                EXCEPT !.pc = "done"]]

AnalyzeReturn(t, resp) ==
    /\ tasks[t].pc = "analyze"
    /\ LET tk == tasks[t]
           p == tk.project
       IN  IF ~resp.success
           THEN Step(t, Raise(World, tk, "Analysis failed"))
           ELSE LET qs == resp.questions
                    w1 == new_artifact(World,
                              Artifact(p, "brief", APPROVED, 1, [brief |-> "brief"],
                                       "project_manager"))
                    w2 == save_artifact(w1, p, Len(w1.heap[p]))
                    w3 == IF qs # <<>>
                          THEN LET wa == new_artifact(w2,
                                            Artifact(p, "questions", PENDING, 1,
                                                     [questions |-> qs], "project_manager"))
                               IN  save_artifact(wa, p, Len(wa.heap[p]))
                          ELSE w2
                    w4 == [w3 EXCEPT !.projects_db[p].brief = "brief"]
                IN  IF qs # <<>>
                    THEN Step(t, Suspend(w4, tk, qs))
                    ELSE Step(t, continue_pipeline(w4, tk, DefaultInterview))
    /\ Counted(resp)
    /\ UNCHANGED <<reply, rejects>>

\* ------------------------------------------------------ _create_with_review
\* agent.execute(task) returns: a failure raises; a success is saved with
\* status review and version revisions + 1, and the review is awaited.
CreateReturn(t, resp) ==
    /\ tasks[t].pc = "create"
    /\ LET tk == tasks[t]
           p == tk.project
       IN  IF ~resp.success
           THEN Step(t, Raise(World, tk, "Agent failed"))
           ELSE LET w1 == new_artifact(World,
                              Artifact(p, StageType(tk.stg), REVIEW, tk.revisions + 1,
                                       resp.output, StageAgent(tk.stg)))
                    ref == Len(w1.heap[p])
                IN  Step(t, [w |-> save_artifact(w1, p, ref),
                             tk |-> [tk EXCEPT !.pc = "review", !.output = resp.output,
                                               !.artifact = ref,
                                               !.written = Append(@, ref)]])
    /\ Counted(resp)
    /\ UNCHANGED <<reply, rejects>>

\* Variant: a failed review treated like a failed creation.
ReviewFailedRaises(w, tk) == Raise(w, tk, "Review failed")

\* if not review_response.success: accept the output as it is.
ReviewFailed(w, tk) ==
    AfterStage(set_status(w, tk.project, tk.artifact, APPROVED),
               ReturnOutput(tk, "review_failed"), tk.output)

\* if review.approved or review.score >= 8: approve, emit, return.
ReviewPassed(w, tk, review) ==
    AfterStage(set_status(w, tk.project, tk.artifact, APPROVED),
               ReturnOutput(emit_event(tk, [type |-> "artifact_approved",
                                            atype |-> StageType(tk.stg),
                                            score |-> review.score]),
                            "approved"),
               tk.output)

\* Variant: a loop that raises when the revisions are used up.
ReviewRejectedStrict(w, tk, review) ==
    LET revisions == tk.revisions + 1
        w1 == [set_status(w, tk.project, tk.artifact, REVISION) EXCEPT
                  !.heap[tk.project][tk.artifact].review_notes = review.feedback]
        tk1 == [emit_event(tk, [type |-> "artifact_revision",
                                atype |-> StageType(tk.stg),
                                revision |-> revisions,
                                feedback |-> review.feedback])
                  EXCEPT !.revisions = revisions,
                         !.req = ReviseRequest(tk.req, tk.output, review)]
    IN  IF LoopContinues(revisions)
        THEN [w |-> w1, tk |-> [tk1 EXCEPT !.pc = "create", !.calls = tk.calls + 1]]
        ELSE Raise(w1, tk1, "Max revisions reached")

\* Otherwise: count the revision, mark the artifact, emit, build the revise
\* request and test the loop condition again; when it fails, `return output`.
ReviewRejected(w, tk, review) ==
    LET revisions == tk.revisions + 1
        w1 == [set_status(w, tk.project, tk.artifact, REVISION) EXCEPT
                  !.heap[tk.project][tk.artifact].review_notes = review.feedback]
        tk1 == [emit_event(tk, [type |-> "artifact_revision",
                                atype |-> StageType(tk.stg),
                                revision |-> revisions,
                                feedback |-> review.feedback])
                  EXCEPT !.revisions = revisions,
                         !.req = ReviseRequest(tk.req, tk.output, review)]
    IN  IF LoopContinues(revisions)
        THEN [w |-> w1, tk |-> [tk1 EXCEPT !.pc = "create", !.calls = tk.calls + 1]]
        ELSE AfterStage(w1, ReturnOutput(tk1, "exhausted"), tk.output)

\* self.pm.execute(review_task) returns: the rest of the loop body, then
\* either the next agent.execute or the return and what follows it.
ReviewReturn(t, resp) ==
    /\ tasks[t].pc = "review"
    /\ LET tk == [tasks[t] EXCEPT !.reviews = Append(@, resp)]
       IN  IF ~resp.success
           THEN Step(t, ReviewFailed(World, tk))
           ELSE IF Accepts(resp.output)
           THEN Step(t, ReviewPassed(World, tk, resp.output))
           ELSE Step(t, ReviewRejected(World, tk, resp.output))
    /\ rejects' = IF resp.success /\ ~Accepts(resp.output) THEN rejects + 1 ELSE rejects
    /\ Counted(resp)
    /\ UNCHANGED reply

\* --------------------------------------------------- continue_after_answers
\* int(v) of a payload value: the integer, or the exception raised (a text
\* that is not a number: ValueError; the float infinity: OverflowError).
int(v) ==
    CASE v = "30000" -> [value |-> 30000, raises |-> "none"]
      [] v = "0" -> [value |-> 0, raises |-> "none"]
      [] v = FloatInfinity -> [value |-> 0, raises |-> "OverflowError"]
      [] OTHER -> [value |-> 0, raises |-> "ValueError"]

\* try: field = int(s); except (ValueError, TypeError): pass
Caught == {"ValueError", "TypeError"}

ParseInt(s) == IF int(s).raises = "none" THEN <<int(s).value>> ELSE <<>>

\* An exception of int() that the except clauses do not name leaves the
\* function.
parse_raises(answers) ==
    \E k \in {"budget", "target_cpa"} \cap DOMAIN answers :
       int(answers[k]).raises \notin Caught \cup {"none"}

parse_answers_to_interview(answers) ==
    [DefaultInterview EXCEPT
        !.budget_monthly = IF "budget" \in DOMAIN answers
                           THEN ParseInt(answers.budget) ELSE <<>>,
        !.target_cpa = IF "target_cpa" \in DOMAIN answers
                       THEN ParseInt(answers.target_cpa) ELSE <<>>]

\* ProjectSettings(budget_monthly=interview.budget_monthly or 50000, ...)
SettingsOf(interview) ==
    [set |-> TRUE,
     budget_monthly |-> IF interview.budget_monthly \in {<<>>, <<0>>}
                        THEN <<50000>> ELSE interview.budget_monthly,
     goals |-> <<interview.primary_goal>> \o interview.secondary_goals,
     target_audience_description |-> interview.target_audience_description]

\* Variant: the answers are used and the stored questions artifact is left
\* as it was.
questions_left_pending(w, p, qa, interview) == w

\* content["interview"] = ...; content["all_answered"] = True; status =
\* APPROVED; save_artifact(questions_artifact): the artifact that is patched
\* and saved again is the stored object itself.
answer_questions(w, p, qa, interview) ==
    save_artifact(
        [w EXCEPT !.heap[p][qa].content =
                      [interview |-> interview, all_answered |-> TRUE] @@ @,
                  !.heap[p][qa].status = APPROVED], p, qa)

\* continue_after_answers from its start to the first await of the strategy
\* stage.
ContinueStart(t) ==
    /\ tasks[t].kind = "continue" /\ tasks[t].pc = "scheduled"
    /\ LET tk == tasks[t]
           p == tk.project
           interview == parse_answers_to_interview(tk.answers)
           qa == get_latest_artifact(World, p, "questions")
           w1 == IF qa # 0 THEN answer_questions(World, p, qa, interview) ELSE World
           w2 == [w1 EXCEPT !.projects_db[p].settings = SettingsOf(interview)]
       IN  IF parse_raises(tk.answers)
           THEN Step(t, Raise(World, tk, "cannot convert float infinity to integer"))
           ELSE Step(t, continue_pipeline(w2, tk, interview))
    /\ UNCHANGED <<reply, rejects, failures>>

\* ------------------------------------------------------------- the requests
\* background_tasks.add_task(...)
add_task(kind, p, answers) == tasks' = Append(tasks, NewTask(kind, p, answers))

\* str(uuid.uuid4()): an id no project has; the model takes them in order.
FreshId == IF "p1" \notin DOMAIN projects_db THEN "p1" ELSE "p2"

\* POST /api/projects
create_project ==
    /\ projects_db' = projects_db @@
          (FreshId :> [status |-> CREATED, current_stage |-> 0, error_message |-> "none",
                       brief |-> "none", settings |-> NoSettings])
    /\ add_task("run", FreshId, <<>>)
    /\ reply' = [op |-> "create", project |-> FreshId, code |-> 200]
    /\ UNCHANGED <<stream, event_callbacks, artifacts_db, heap, waiting_projects, rejects, failures>>

\* POST /api/projects/{project_id}/start
\* A start handler without the status check.
start_pipeline_unguarded(p) ==
    /\ IF p \notin DOMAIN projects_db
       THEN /\ reply' = [op |-> "start", project |-> p, code |-> 404]
            /\ UNCHANGED <<projects_db, tasks>>
       ELSE /\ projects_db' = [projects_db EXCEPT ![p].status = ANALYZING]
            /\ add_task("run", p, <<>>)
            /\ reply' = [op |-> "start", project |-> p, code |-> 200]
    /\ UNCHANGED <<stream, event_callbacks, artifacts_db, heap, waiting_projects, rejects, failures>>

start_pipeline(p) ==
    /\ IF p \notin DOMAIN projects_db
       THEN /\ reply' = [op |-> "start", project |-> p, code |-> 404]
            /\ UNCHANGED <<projects_db, tasks>>
       ELSE IF projects_db[p].status \notin {CREATED, FAILED}
       THEN /\ reply' = [op |-> "start", project |-> p, code |-> 400]
            /\ UNCHANGED <<projects_db, tasks>>
       ELSE /\ projects_db' = [projects_db EXCEPT ![p].status = ANALYZING]
            /\ add_task("run", p, <<>>)
            /\ reply' = [op |-> "start", project |-> p, code |-> 200]
    /\ UNCHANGED <<stream, event_callbacks, artifacts_db, heap, waiting_projects, rejects, failures>>

\* Variant: a handler that rejects a project that is not waiting for answers
\* and schedules the continuation all the same.
submit_answers_unguarded(p, answers) ==
    /\ IF p \notin DOMAIN projects_db
       THEN /\ reply' = [op |-> "answers", project |-> p, code |-> 404]
            /\ UNCHANGED tasks
       ELSE /\ add_task("continue", p, answers)
            /\ reply' = [op |-> "answers", project |-> p,
                         code |-> IF projects_db[p].status # QUESTIONS THEN 400 ELSE 200]
    /\ UNCHANGED <<stream, event_callbacks, projects_db, artifacts_db, heap, waiting_projects, rejects, failures>>

\* POST /api/projects/{project_id}/answers
submit_answers(p, answers) ==
    /\ IF p \notin DOMAIN projects_db
       THEN /\ reply' = [op |-> "answers", project |-> p, code |-> 404]
            /\ UNCHANGED tasks
       ELSE IF projects_db[p].status # QUESTIONS
       THEN /\ reply' = [op |-> "answers", project |-> p, code |-> 400]
            /\ UNCHANGED tasks
       ELSE /\ add_task("continue", p, answers)
            /\ reply' = [op |-> "answers", project |-> p, code |-> 200]
    /\ UNCHANGED <<stream, event_callbacks, projects_db, artifacts_db, heap, waiting_projects, rejects, failures>>

\* Variant: an edit that rewrites the latest artifact of the type in place.
edit_artifact_in_place(p, ty, content) ==
    /\ LET latest == get_latest_artifact(World, p, ty)
       IN  IF latest = 0
           THEN /\ reply' = [op |-> "edit", project |-> p, code |-> 404]
                /\ UNCHANGED <<artifacts_db, heap>>
           ELSE /\ heap' = [heap EXCEPT ![p][latest].content = content,
                                        ![p][latest].status = USER_EDITED,
                                        ![p][latest].agent_name = "user",
                                        ![p][latest].version = @ + 1]
                /\ artifacts_db' = [artifacts_db EXCEPT ![p] = Append(@, latest)]
                /\ reply' = [op |-> "edit", project |-> p, code |-> 200]
    /\ UNCHANGED <<stream, event_callbacks, projects_db, waiting_projects, tasks, rejects, failures>>

\* PUT /api/artifacts/project/{project_id}/{artifact_type}: a new object with
\* status user_edited and the next version after the latest of its type.
edit_artifact(p, ty, content) ==
    /\ LET latest == get_latest_artifact(World, p, ty)
       IN  IF latest = 0
           THEN /\ reply' = [op |-> "edit", project |-> p, code |-> 404]
                /\ UNCHANGED <<artifacts_db, heap>>
           ELSE LET w1 == new_artifact(World,
                              [Artifact(p, ty, USER_EDITED, heap[p][latest].version + 1,
                                        content, "user")
                                 EXCEPT !.user_feedback = "feedback"])
                    w2 == save_artifact(w1, p, Len(w1.heap[p]))
                IN  /\ artifacts_db' = w2.artifacts_db
                    /\ heap' = w2.heap
                    /\ reply' = [op |-> "edit", project |-> p, code |-> 200]
    /\ UNCHANGED <<stream, event_callbacks, projects_db, waiting_projects, tasks, rejects, failures>>

\* The post-completion refinements: regenerate_creative, create_variation
\* and generate_more.
RefinementKinds == {"regenerate", "variation", "generate_more"}

\* Variant: a handler that checks that the project exists and nothing else.
refinement_request_unchecked(kind, p) ==
    /\ IF p \notin DOMAIN projects_db
       THEN /\ reply' = [op |-> kind, project |-> p, code |-> 404]
            /\ UNCHANGED tasks
       ELSE /\ tasks' = Append(tasks,
                           [NewTask(kind, p, <<>>) EXCEPT
                               !.pc = "refine",
                               !.artifact = get_latest_artifact(World, p, "copy")])
            /\ reply' = [op |-> kind, project |-> p, code |-> 400]
    /\ UNCHANGED <<stream, event_callbacks, projects_db, artifacts_db, heap, waiting_projects,
                   rejects, failures>>

\* POST /api/projects/{project_id}/creatives/{regenerate, variation,
\* generate-more} with a valid body, up to the await of copywriter.execute:
\* the handler's checks, then the orchestrator method's lookups.  An
\* exception of the method is answered with 500.
refinement_request(kind, p) ==
    /\ IF p \notin DOMAIN projects_db
       THEN /\ reply' = [op |-> kind, project |-> p, code |-> 404]
            /\ UNCHANGED tasks
       ELSE IF projects_db[p].status # COMPLETED
       THEN /\ reply' = [op |-> kind, project |-> p, code |-> 400]
            /\ UNCHANGED tasks
       ELSE LET copy_artifact == get_latest_artifact(World, p, "copy")
                strategy_artifact == get_latest_artifact(World, p, "strategy")
            IN  IF copy_artifact = 0 \/ (kind = "generate_more" /\ strategy_artifact = 0)
                THEN /\ reply' = [op |-> kind, project |-> p, code |-> 500]
                     /\ UNCHANGED tasks
                ELSE /\ tasks' = Append(tasks,
                                    [NewTask(kind, p, <<>>) EXCEPT
                                        !.pc = "refine", !.artifact = copy_artifact])
                     /\ UNCHANGED reply
    /\ UNCHANGED <<stream, event_callbacks, projects_db, artifacts_db, heap, waiting_projects, rejects, failures>>

\* What the copywriter returns to a refinement.
RefinementResponses(kind) ==
    {Failure, [success |-> TRUE, output |-> [kind |-> "copy", action |-> kind]]}

\* copywriter.execute returns to a refinement: a failure raises and is
\* answered with 500; a success assigns content and version of the stored
\* copy artifact and saves the same object again.
refinement_return(t, resp) ==
    /\ tasks[t].pc = "refine"
    /\ LET tk == tasks[t]
           p == tk.project
           ref == tk.artifact
           old == heap[p][ref].content
           content == IF tk.kind = "generate_more"
                      THEN [creatives |->
                               (IF "creatives" \in DOMAIN old THEN old.creatives ELSE <<>>)
                                  \o <<resp.output>>] @@ old
                      ELSE resp.output
       IN  IF ~resp.success
           THEN /\ reply' = [op |-> tk.kind, project |-> p, code |-> 500]
                /\ UNCHANGED <<artifacts_db, heap>>
           ELSE LET w1 == [World EXCEPT !.heap[p][ref].content = content,
                                        !.heap[p][ref].version = @ + 1]
                    w2 == save_artifact(w1, p, ref)
                IN  /\ artifacts_db' = w2.artifacts_db
                    /\ heap' = w2.heap
                    /\ reply' = [op |-> tk.kind, project |-> p, code |-> 200]
    /\ tasks' = [tasks EXCEPT ![t].pc = "done"]
    /\ Counted(resp)
    /\ UNCHANGED <<stream, event_callbacks, projects_db, waiting_projects, rejects>>

\* orchestrator.on_event(callback)
on_event(kind) ==
    /\ event_callbacks' = Append(event_callbacks, [kind |-> kind, calls |-> <<>>])
    /\ UNCHANGED <<projects_db, artifacts_db, heap, waiting_projects, tasks, reply,
                   rejects, failures, stream>>

\* ------------------------------------------------- stream_project_updates
\* GET /{project_id}/stream: the handler returns the generator, which has
\* not run yet.
stream_project_updates(p) ==
    /\ stream.pc = "closed"
    /\ stream' = [pc |-> "poll", project |-> p, last |-> NoReport]
    /\ UNCHANGED <<projects_db, artifacts_db, heap, waiting_projects, tasks, reply,
                   rejects, failures, event_callbacks>>

\* The generator reads the project and yields its status and stage; it
\* stays suspended at the yield while the chunk is sent.
StreamYield ==
    /\ stream.pc = "poll"
    /\ stream' = IF stream.project \notin DOMAIN projects_db
                 THEN [stream EXCEPT !.pc = "ended", !.last = [error |-> "Project not found"]]
                 ELSE [stream EXCEPT
                         !.pc = "yielded",
                         !.last = [status |-> projects_db[stream.project].status,
                                   stage |-> projects_db[stream.project].current_stage]]
    /\ UNCHANGED <<projects_db, artifacts_db, heap, waiting_projects, tasks, reply,
                   rejects, failures, event_callbacks>>

\* The generator is resumed after the yield: it ends when the project's
\* status is now COMPLETED or FAILED and sleeps before the next poll
\* otherwise.
StreamResume ==
    /\ stream.pc = "yielded"
    /\ stream' = [stream EXCEPT
                    !.pc = IF projects_db[stream.project].status \in {COMPLETED, FAILED}
                           THEN "ended" ELSE "poll"]
    /\ UNCHANGED <<projects_db, artifacts_db, heap, waiting_projects, tasks, reply,
                   rejects, failures, event_callbacks>>

\* ---------------------------------------------------------- specification
Init ==
    /\ projects_db = <<>>
    /\ artifacts_db = [p \in ProjectIds |-> <<>>]
    /\ heap = [p \in ProjectIds |-> <<>>]
    /\ waiting_projects = <<>>
    /\ tasks = <<>>
    /\ reply = [op |-> "none", project |-> "none", code |-> 0]
    /\ rejects = 0
    /\ failures = 0
    /\ event_callbacks = <<>>
    /\ stream = [pc |-> "closed", project |-> "none", last |-> NoReport]

\* The environment's bounds: a failing response or a rejecting verdict is
\* offered only within them.
Offered(resp, maxRejects) ==
    /\ resp.success \/ failures < MaxFailures
    /\ (resp.success /\ "output" \in DOMAIN resp /\ "approved" \in DOMAIN resp.output)
          => (Accepts(resp.output) \/ rejects < maxRejects)

\* A step of task t, the external call it awaits answering from the given sets.
TaskStep(t, verdicts, platformSets, maxRejects) ==
    \/ RunStart(t)
    \/ \E resp \in ParseResponses : Offered(resp, maxRejects) /\ ParseReturn(t, resp)
    \/ \E resp \in AnalysisResponses : Offered(resp, maxRejects) /\ AnalyzeReturn(t, resp)
    \/ /\ tasks[t].pc = "create"
       /\ \E resp \in CreateResponses(tasks[t], platformSets) :
             Offered(resp, maxRejects) /\ CreateReturn(t, resp)
    \/ \E resp \in ReviewResponses(verdicts) :
          Offered(resp, maxRejects) /\ ReviewReturn(t, resp)
    \/ ContinueStart(t)

\* The requests the handlers accept, while tasks may still be scheduled.
Request ==
    \/ DOMAIN projects_db # ProjectIds /\ Len(tasks) < MaxTasks /\ create_project
    \/ \E p \in ProjectIds :
          Len(tasks) < MaxTasks /\ start_pipeline(p) /\ reply'.code = 200
    \/ \E p \in ProjectIds, a \in Payloads :
          Len(tasks) < MaxTasks /\ submit_answers(p, a) /\ reply'.code = 200

\* The requests the handlers reject.
Rejected ==
    \/ \E p \in ProjectIds : start_pipeline(p) /\ reply'.code # 200
    \/ \E p \in ProjectIds, a \in Payloads : submit_answers(p, a) /\ reply'.code # 200

\* The edits and refinement requests the handlers reject.
RejectedChange ==
    \/ \E p \in ProjectIds, ty \in EditedTypes :
          edit_artifact(p, ty, EditedContent) /\ reply'.code # 200
    \/ \E kind \in RefinementKinds, p \in ProjectIds :
          refinement_request(kind, p) /\ tasks' = tasks

\* Any interleaving of accepted requests and task steps; a review answers
\* with a passing or a rejecting verdict.
Next ==
    \/ \E t \in 1..Len(tasks) :
          TaskStep(t, PlainVerdicts, PlainPlatformSets, MaxRejectsInterleaved)
    \/ Request

Spec == Init /\ [][Next]_vars

\* One project, created once, and the first answers submission accepted for
\* it.
RunRequest ==
    \/ projects_db = <<>> /\ create_project
    \/ \E p \in ProjectIds, a \in Payloads :
          /\ \A t \in 1..Len(tasks) : tasks[t].kind # "continue"
          /\ submit_answers(p, a) /\ reply'.code = 200

\* One project, its run and its resumption, one after the other; a review
\* answers with any verdict and a strategy with any platform set.
NextRun ==
    \/ \E t \in 1..Len(tasks) : TaskStep(t, Verdicts, PlatformSets, MaxRejects)
    \/ RunRequest

SpecRun == Init /\ [][NextRun]_vars

\* One project, its run and its resumption with plain verdicts, every
\* external call returning: a task that can take a step, which is the return
\* of the call it awaits, eventually takes one.
NextLive ==
    \/ \E t \in 1..Len(tasks) :
          TaskStep(t, PlainVerdicts, PlainPlatformSets, MaxRejects)
    \/ RunRequest

FairRun ==
    /\ Init /\ [][NextLive]_vars
    /\ \A t \in 1..MaxTasks :
          WF_vars(t <= Len(tasks)
                  /\ TaskStep(t, PlainVerdicts, PlainPlatformSets, MaxRejects))

\* One project, its run and its resumption with any payload, well-formed or
\* not.
NextParse ==
    \/ \E t \in 1..Len(tasks) :
          TaskStep(t, PlainVerdicts, PlainPlatformSets, MaxRejectsInterleaved)
    \/ projects_db = <<>> /\ create_project
    \/ \E p \in ProjectIds,
          a \in Payloads \cup MalformedPayloads \cup ZeroBudgetPayloads :
          /\ \A t \in 1..Len(tasks) : tasks[t].kind # "continue"
          /\ submit_answers(p, a) /\ reply'.code = 200

SpecParse == Init /\ [][NextParse]_vars

\* One project, its run and its resumption, the rejecting reviews with or
\* without revision instructions.
NextRevise ==
    \/ \E t \in 1..Len(tasks) :
          TaskStep(t, InstructedVerdicts, PlainPlatformSets, MaxRejects)
    \/ RunRequest

SpecRevise == Init /\ [][NextRevise]_vars

\* One project, its run and its resumption, and start requests at any
\* moment, of which one is accepted, before the run has started or after
\* it has failed.
NextStart ==
    \/ \E t \in 1..Len(tasks) :
          TaskStep(t, PlainVerdicts, PlainPlatformSets, 0)
    \/ RunRequest
    \/ \E p \in DOMAIN projects_db :
          /\ start_pipeline(p)
          /\ reply'.code = 200 => Len(tasks) = 1

SpecStart == Init /\ [][NextStart]_vars

\* One project, its run and its resumption, and a client that opens the
\* status stream of the project at any moment.
NextStream ==
    \/ \E t \in 1..Len(tasks) :
          TaskStep(t, PlainVerdicts, PlainPlatformSets, 0)
    \/ RunRequest
    \/ \E p \in DOMAIN projects_db : stream_project_updates(p)
    \/ StreamYield
    \/ StreamResume

SpecStream == Init /\ [][NextStream]_vars

\* One project, its run and its resumption, with the requests the handlers
\* reject at any moment.
NextReq ==
    \/ \E t \in 1..Len(tasks) :
          TaskStep(t, PlainVerdicts, PlatformSets \cup NoVisualPlatformSets,
                   MaxRejectsInterleaved)
    \/ RunRequest
    \/ Rejected

SpecReq == Init /\ [][NextReq]_vars

\* No task is scheduled or running and no handler is suspended: a client
\* that waits for the outcome of one request before it sends the next.
Idle == \A t \in 1..Len(tasks) : tasks[t].pc \in {"done", "raised"}

PipelineTasks == {t \in 1..Len(tasks) : tasks[t].kind \in {"run", "continue"}}
Refinements == {t \in 1..Len(tasks) : tasks[t].kind \in RefinementKinds}
Edits == {i \in 1..Len(heap["p1"]) : heap["p1"][i].status = USER_EDITED}

\* The requests of such a client that the handlers accept.
SeqRequest ==
    \/ Idle /\ projects_db = <<>> /\ create_project
    \/ \E p \in ProjectIds :
          /\ Idle /\ Cardinality(PipelineTasks) < MaxTasks
          /\ start_pipeline(p) /\ reply'.code = 200
    \/ \E p \in ProjectIds, a \in Payloads :
          /\ Idle /\ Cardinality(PipelineTasks) < MaxTasks
          /\ submit_answers(p, a) /\ reply'.code = 200
    \/ \E p \in ProjectIds, ty \in EditedTypes :
          /\ Idle /\ Cardinality(Edits) < MaxEdits
          /\ edit_artifact(p, ty, EditedContent) /\ reply'.code = 200
    \/ \E kind \in RefinementKinds, p \in ProjectIds :
          /\ Idle /\ Cardinality(Refinements) < MaxRefinements
          /\ refinement_request(kind, p) /\ tasks' # tasks

\* One project and a client that sends one request at a time: runs,
\* restarts after a failure, resumptions, user edits and refinements.
NextSeq ==
    \/ \E t \in 1..Len(tasks) :
          TaskStep(t, PlainVerdicts, PlainPlatformSets, MaxRejectsInterleaved)
    \/ \E t \in 1..Len(tasks) :
          \E resp \in RefinementResponses(tasks[t].kind) :
             Offered(resp, MaxRejectsInterleaved) /\ refinement_return(t, resp)
    \/ SeqRequest
    \/ RejectedChange

SpecSeq == Init /\ [][NextSeq]_vars

\* The versions and statuses of the artifacts saved to the store alone.
StoredTypes == {"strategy", "copy"}
StoredVersions == 1..MaxStored
StoredStatuses == {REVISION, APPROVED}

\* save_artifact(Artifact(...)) called with any artifact of project p1.
StoreArtifact(ty, ver, st) ==
    /\ LET w1 == new_artifact(World, Artifact("p1", ty, st, ver, [n |-> ver], "agent"))
           w2 == save_artifact(w1, "p1", Len(w1.heap["p1"]))
       IN  artifacts_db' = w2.artifacts_db /\ heap' = w2.heap
    /\ UNCHANGED <<stream, event_callbacks, projects_db, waiting_projects, tasks, reply, rejects, failures>>

\* GET /api/artifacts/project/{project_id}/{artifact_type}: the lookup of
\* get_latest_artifact, answered with the artifact or with 404.
get_artifact_by_type(p, ty) ==
    /\ LET latest == get_latest_artifact(World, p, ty)
       IN  reply' = [op |-> "get", project |-> p, type |-> ty,
                     code |-> IF latest = 0 THEN 404 ELSE 200, artifact |-> latest]
    /\ UNCHANGED <<stream, event_callbacks, projects_db, artifacts_db, heap, waiting_projects, tasks,
                   rejects, failures>>

\* The store alone: artifacts saved in any order of versions, and lookups.
NextStore ==
    \/ \E ty \in StoredTypes, ver \in StoredVersions, st \in StoredStatuses :
          Len(artifacts_db["p1"]) < MaxStored /\ StoreArtifact(ty, ver, st)
    \/ \E p \in ProjectIds, ty \in StoredTypes : get_artifact_by_type(p, ty)
    \/ \E p \in ProjectIds, ty \in StoredTypes :
          Len(artifacts_db["p1"]) < MaxStored /\ edit_artifact(p, ty, EditedContent)

SpecStore == Init /\ [][NextStore]_vars

\* What a registered observer does with a call: raise or record.
ObserverKinds == {"raises", "records"}

\* One project, its run and its resumption, with observers registered at
\* any moment.
NextObs ==
    \/ \E t \in 1..Len(tasks) :
          TaskStep(t, PlainVerdicts, PlainPlatformSets, MaxRejectsInterleaved)
    \/ RunRequest
    \/ \E kind \in ObserverKinds :
          Len(event_callbacks) < MaxObservers /\ on_event(kind)

SpecObs == Init /\ [][NextObs]_vars

\* User-edited artifacts of all projects.
AllEdits ==
    {e \in UNION {{<<p, i>> : i \in 1..Len(heap[p])} : p \in ProjectIds} :
        heap[e[1]][e[2]].status = USER_EDITED}

\* The requests accepted for two projects, each created once: the first is
\* resumed once and refined once, and one of the two is edited once, while
\* the run of the second goes on.
TwoRequest ==
    \/ DOMAIN projects_db # ProjectIds /\ create_project
    \/ \E a \in Payloads :
          /\ \A t \in 1..Len(tasks) : tasks[t].kind # "continue"
          /\ submit_answers("p1", a) /\ reply'.code = 200
    \/ \E p \in ProjectIds, ty \in EditedTypes :
          /\ AllEdits = {}
          /\ edit_artifact(p, ty, EditedContent) /\ reply'.code = 200
    \/ \E kind \in RefinementKinds :
          /\ Refinements = {}
          /\ refinement_request(kind, "p1") /\ tasks' # tasks

\* Two projects whose runs, resumptions, edits and refinements interleave
\* in any order.
NextTwo ==
    \/ \E t \in 1..Len(tasks) :
          TaskStep(t, PlainVerdicts, PlainPlatformSets, 0)
    \/ \E t \in 1..Len(tasks) :
          \E resp \in RefinementResponses(tasks[t].kind) :
             Offered(resp, MaxRejectsInterleaved) /\ refinement_return(t, resp)
    \/ TwoRequest

SpecTwo == Init /\ [][NextTwo]_vars

\* ------------------------------------------------------------- properties
TaskIds == 1..Len(tasks)

\* A review response that passes, and one that rejects, in the words of the
\* specification.
Passes(resp) == resp.success /\ (resp.output.approved \/ resp.output.score >= 8)
Rejects(resp) == resp.success /\ ~resp.output.approved /\ resp.output.score < 8

\* The events of one type a task has emitted for one artifact type.
LoopEvents(tk, type, atype) ==
    {i \in DOMAIN tk.events :
        tk.events[i].type = type /\ tk.events[i].atype = atype}

\* The events of one type a task has emitted.
EventsOfType(tk, type) == {i \in DOMAIN tk.events : tk.events[i].type = type}

\* The artifact object behind a reference of task tk's project.
Object(tk, ref) == heap[tk.project][ref]

\* C1: every revision loop stops within max_revisions + 1 creation attempts
\* (agent.execute calls), and every loop that returns (each of its creation
\* calls having succeeded) returns an output of its stage, never a null one.
C1_LoopTerminates ==
    \A t \in TaskIds :
        /\ tasks[t].calls <= max_revisions + 1
        /\ \A i \in DOMAIN tasks[t].loops :
              LET l == tasks[t].loops[i]
              IN  /\ l.calls <= max_revisions + 1
                  /\ l.output # NoOutput
                  /\ l.output.kind = StageType(l.stg)

\* A loop that has used every attempt and returned.
C1_Witness ==
    \E t \in TaskIds : \E i \in DOMAIN tasks[t].loops :
        /\ tasks[t].loops[i].exit = "exhausted"
        /\ tasks[t].loops[i].calls = max_revisions
        /\ tasks[t].loops[i].output # NoOutput

\* C2: when the review of an attempt succeeds, the attempt is accepted iff
\* the verdict is approved or scores at least 8; an accepted attempt's
\* artifact is marked approved, exactly one artifact_approved event with the
\* verdict's score is emitted, and the attempt's output is returned with no
\* further creation attempt.  A verdict that is not accepted approves nothing.
C2_AcceptanceRule ==
    [][\A t \in TaskIds : \A v \in Verdicts :
         ReviewReturn(t, [success |-> TRUE, output |-> v]) =>
           LET tk == tasks[t]
               tk2 == tasks'[t]
               last == tk2.loops[Len(tk2.loops)]
               returned == Len(tk2.loops) = Len(tk.loops) + 1
               approvals(x) == EventsOfType(x, "artifact_approved")
               fresh == approvals(tk2) \ approvals(tk)
               accepted == heap'[tk.project][tk.artifact].status = APPROVED
           IN  /\ (v.approved \/ v.score >= 8) <=> accepted
               /\ accepted =>
                    /\ Cardinality(fresh) = 1
                    /\ \A i \in fresh :
                          /\ tk2.events[i].score = v.score
                          /\ tk2.events[i].atype = StageType(tk.stg)
                    /\ returned
                    /\ last.output = tk.output
                    /\ last.output = Object(tk, tk.artifact).content
                    /\ last.calls = tk.calls
                    /\ ~(tk2.stg = tk.stg /\ tk2.pc = "create")
               /\ ~accepted =>
                    /\ fresh = {}
                    /\ heap'[tk.project][tk.artifact].status = REVISION
      ]_vars

\* Two loops of one run accepted on one condition alone: one on the flag with
\* a score of 7, one on a score of 8 without the flag.
C2_Witness ==
    \E t \in TaskIds : \E i, j \in DOMAIN tasks[t].loops :
        LET a == tasks[t].loops[i]
            b == tasks[t].loops[j]
        IN  /\ a.exit = "approved" /\ b.exit = "approved"
            /\ a.reviews[Len(a.reviews)].output = [approved |-> TRUE, score |-> 7,
                  feedback |-> "fb", revision_instructions |-> "none"]
            /\ b.reviews[Len(b.reviews)].output = [approved |-> FALSE, score |-> 8,
                  feedback |-> "fb", revision_instructions |-> "none"]

\* C3: a loop all of whose reviews reject makes exactly max_revisions
\* creation attempts, returns the last output, and has emitted
\* artifact_revision exactly max_revisions - 1 times.
C3_AllRejected ==
    \A t \in TaskIds : \A i \in DOMAIN tasks[t].loops :
        LET tk == tasks[t]
            l == tk.loops[i]
        IN  (\A j \in DOMAIN l.reviews : Rejects(l.reviews[j])) =>
              /\ l.calls = max_revisions
              /\ Len(l.written) = max_revisions
              /\ l.output = Object(tk, l.written[Len(l.written)]).content
              /\ Cardinality(LoopEvents(tk, "artifact_revision", StageType(l.stg)))
                    = max_revisions - 1

\* C4: of the artifacts a returned loop has written exactly one is approved,
\* and it holds the output the loop returned.
C4_OneAccepted ==
    \A t \in TaskIds : \A i \in DOMAIN tasks[t].loops :
        LET tk == tasks[t]
            l == tk.loops[i]
            approved == {j \in DOMAIN l.written :
                            Object(tk, l.written[j]).status = APPROVED}
        IN  /\ Cardinality(approved) = 1
            /\ \A j \in approved : Object(tk, l.written[j]).content = l.output

\* C5: a loop whose first k-1 reviews reject and whose k-th review passes
\* (1 <= k <= max_revisions) makes exactly k creation attempts and returns the
\* k-th output; the k-th artifact ends approved and the earlier ones end in
\* revision.  No attempt follows a passing review: a loop still running has
\* seen rejections only.
C5_PassAtK ==
    \A t \in TaskIds :
        LET tk == tasks[t]
        IN  /\ tk.pc \in {"create", "review"} =>
                 \A j \in DOMAIN tk.reviews : Rejects(tk.reviews[j])
            /\ \A i \in DOMAIN tk.loops :
                 LET l == tk.loops[i]
                     k == Len(l.reviews)
                 IN  (/\ k \in 1..max_revisions
                      /\ \A j \in 1..(k - 1) : Rejects(l.reviews[j])
                      /\ Passes(l.reviews[k])) =>
                        /\ l.calls = k
                        /\ Len(l.written) = k
                        /\ l.output = Object(tk, l.written[k]).content
                        /\ l.output.n = k
                        /\ Object(tk, l.written[k]).status = APPROVED
                        /\ \A j \in 1..(k - 1) :
                              Object(tk, l.written[j]).status = REVISION

\* A loop accepted at its last attempt, after max_revisions - 1 rejections.
C5_Witness ==
    \E t \in TaskIds : \E i \in DOMAIN tasks[t].loops :
        LET l == tasks[t].loops[i]
        IN  /\ Len(l.reviews) = max_revisions
            /\ \A j \in 1..(max_revisions - 1) : Rejects(l.reviews[j])
            /\ Passes(l.reviews[max_revisions])
            /\ l.calls = max_revisions
            /\ Object(tasks[t], l.written[max_revisions]).status = APPROVED

\* C6: when the review call of an attempt reports failure, the attempt's
\* artifact is marked approved, its output is returned as the stage's output
\* with no further creation attempt, and the run goes on: no error event, no
\* error message, the task does not raise and the project is not FAILED.
C6_ReviewFailureAccepts ==
    [][\A t \in TaskIds :
         ReviewReturn(t, Failure) =>
           LET tk == tasks[t]
               tk2 == tasks'[t]
               p == tk.project
               last == tk2.loops[Len(tk2.loops)]
           IN  /\ heap'[p][tk.artifact].status = APPROVED
               /\ Len(tk2.loops) = Len(tk.loops) + 1
               /\ last.output = tk.output
               /\ last.output = Object(tk, tk.artifact).content
               /\ last.calls = tk.calls
               /\ ~(tk2.stg = tk.stg /\ tk2.pc = "create")
               /\ tk2.pc # "raised"
               /\ EventsOfType(tk2, "pipeline_error") = EventsOfType(tk, "pipeline_error")
               /\ projects_db'[p].status # FAILED
               /\ projects_db'[p].error_message = projects_db[p].error_message
      ]_vars

\* A run that completed although the review of its strategy had failed.
C6_Witness ==
    \E t \in TaskIds : \E i \in DOMAIN tasks[t].loops :
        /\ tasks[t].loops[i].exit = "review_failed"
        /\ tasks[t].loops[i].stg = 3
        /\ tasks[t].pc = "done"
        /\ projects_db[tasks[t].project].status = COMPLETED

\* C7: when ingestion, the analysis or a creation call reports failure, the
\* project becomes FAILED with the error message recorded, exactly one
\* pipeline_error event carrying it is emitted, the task ends by raising, and
\* it has written nothing and started no stage in that step; a task that has
\* raised never takes another step, so the stage is not retried.
C7_FailureStopsRun ==
    [][\A t \in TaskIds :
         /\ (\/ ParseReturn(t, Failure)
             \/ AnalyzeReturn(t, Failure)
             \/ CreateReturn(t, Failure)) =>
               LET tk == tasks[t]
                   tk2 == tasks'[t]
                   p == tk.project
               IN  /\ projects_db'[p].status = FAILED
                   /\ projects_db'[p].error_message # "none"
                   /\ tk2.events = Append(tk.events,
                         [type |-> "pipeline_error",
                          error |-> projects_db'[p].error_message])
                   /\ tk2.pc = "raised"
                   /\ tk2.stg = tk.stg /\ tk2.calls = tk.calls
                   /\ tk2.loops = tk.loops
                   /\ projects_db'[p].current_stage = projects_db[p].current_stage
                   /\ UNCHANGED <<artifacts_db, heap, waiting_projects>>
         /\ tasks[t].pc = "raised" => tasks'[t] = tasks[t]
      ]_vars

\* A run stopped by a failed revise call of the copywriting stage.
C7_Witness ==
    \E t \in TaskIds :
        /\ tasks[t].pc = "raised"
        /\ tasks[t].stg = 5 /\ tasks[t].calls = 2
        /\ projects_db[tasks[t].project].status = FAILED
        /\ projects_db[tasks[t].project].error_message = "Agent failed"
        /\ Cardinality(EventsOfType(tasks[t], "pipeline_error")) = 1

\* C8: an analysis that yields questions saves a pending questions artifact,
\* sets the status to QUESTIONS, emits questions_ready with the whole list,
\* stores the paused context and ends the task; from then on the status
\* leaves QUESTIONS only in the step in which a continuation scheduled by an
\* accepted answers submission starts.
C8_PausesOnQuestions ==
    [][/\ \A t \in TaskIds : \A qs \in QuestionLists \ {<<>>} :
            AnalyzeReturn(t, [success |-> TRUE, questions |-> qs]) =>
              LET tk == tasks[t]
                  tk2 == tasks'[t]
                  p == tk.project
                  lst == artifacts_db'[p]
              IN  /\ Len(lst) = Len(artifacts_db[p]) + 2
                  /\ heap'[p][lst[Len(lst)]].type = "questions"
                  /\ heap'[p][lst[Len(lst)]].status = PENDING
                  /\ heap'[p][lst[Len(lst)]].content = [questions |-> qs]
                  /\ projects_db'[p].status = QUESTIONS
                  /\ tk2.events = Append(tk.events,
                        [type |-> "questions_ready", project_id |-> p,
                         questions |-> qs])
                  /\ p \in DOMAIN waiting_projects'
                  /\ tk2.pc = "done"
       /\ \A p \in DOMAIN projects_db :
            projects_db[p].status = QUESTIONS =>
              \/ projects_db'[p].status = QUESTIONS
              \/ \E t \in TaskIds :
                    /\ tasks[t].kind = "continue" /\ tasks[t].project = p
                    /\ tasks[t].pc = "scheduled" /\ tasks'[t].pc # "scheduled"
      ]_vars

\* A run of task t that has passed its analysis with no question.
ZeroQuestionRun(t) ==
    /\ tasks[t].kind = "run"
    /\ tasks[t].pc \in {"create", "review", "done"}
    /\ EventsOfType(tasks[t], "questions_ready") = {}

\* The stages a task has announced, in order.
StagesStarted(tk) ==
    LET starts == SelectSeq(tk.events, LAMBDA e : e.type = "stage_start")
    IN  [i \in DOMAIN starts |-> starts[i].stage]

\* C9: while a run whose analysis yielded no question goes through its
\* stages, the project's status is never QUESTIONS: it is the status of the
\* stage the run is in, the stages are entered in the order analyzing,
\* strategy, hypotheses, copywriting, design with none skipped or repeated,
\* and once the run is done the status is COMPLETED.
C9_StraightThrough ==
    \A t \in TaskIds :
        ZeroQuestionRun(t) =>
          LET tk == tasks[t]
              status == projects_db[tk.project].status
              started == StagesStarted(tk)
          IN  /\ status # QUESTIONS
              /\ status = IF tk.pc = "done" THEN COMPLETED ELSE StageStatus(tk.stg)
              /\ started = SubSeq(<<1, 3, 4, 5, 6>>, 1, Len(started))
              /\ tk.pc = "done" => Len(started) = 5

\* C10: an answers submission for a project whose status is not QUESTIONS is
\* rejected with an error, schedules nothing and leaves the projects (status,
\* stage index, settings), the artifacts and the paused contexts as they were.
C10_RejectedAnswers ==
    [][\A p \in DOMAIN projects_db : \A a \in Payloads :
         (projects_db[p].status # QUESTIONS /\ submit_answers(p, a)) =>
            /\ reply'.code = 400
            /\ UNCHANGED <<projects_db, artifacts_db, heap, waiting_projects, tasks>>
      ]_vars

\* A rejected answers submission for a completed project that has artifacts.
C10_Witness ==
    /\ reply.op = "answers" /\ reply.code = 400
    /\ reply.project \in DOMAIN projects_db
    /\ projects_db[reply.project].status = COMPLETED
    /\ artifacts_db[reply.project] # <<>>

\* C11: the step in which a resumption starts sets the status to STRATEGY and
\* the stage index to 3, announces stage 3 and calls the strategist with the
\* interview mapped from the submitted answers, saving no new brief; a
\* resumption never awaits ingestion or analysis and never sets the status to
\* ANALYZING; and the status a project takes when it leaves QUESTIONS is
\* STRATEGY or FAILED.
C11_ResumesAtStrategy ==
    [][/\ \A t \in TaskIds :
            ContinueStart(t) =>
              LET tk == tasks[t]
                  tk2 == tasks'[t]
                  p == tk.project
              IN  /\ projects_db'[p].status = STRATEGY
                  /\ projects_db'[p].current_stage = 3
                  /\ tk2.events = Append(tk.events,
                        [type |-> "stage_start", stage |-> 3, name |-> "strategy"])
                  /\ tk2.pc = "create" /\ tk2.stg = 3
                  /\ tk2.req.task_type = "create"
                  /\ tk2.req.context.interview = parse_answers_to_interview(tk.answers)
                  /\ \A i \in DOMAIN artifacts_db'[p] :
                        heap'[p][artifacts_db'[p][i]].type = "brief" =>
                           i \in DOMAIN artifacts_db[p]
       /\ \A t \in TaskIds :
            tasks[t].kind = "continue" =>
              /\ tasks'[t].pc \notin {"parse", "analyze"}
              /\ (tasks'[t] # tasks[t]
                    /\ projects_db'[tasks[t].project].status = ANALYZING)
                   => projects_db[tasks[t].project].status = ANALYZING
       /\ \A p \in DOMAIN projects_db :
            (projects_db[p].status = QUESTIONS /\ projects_db'[p].status # QUESTIONS)
               => projects_db'[p].status \in {STRATEGY, FAILED}
      ]_vars

\* A task that has started and has neither returned nor raised.
Executing(t) == tasks[t].pc \notin {"scheduled", "done", "raised"}

\* C12: at most one pipeline task (run_pipeline or continue_after_answers)
\* is executing for a project at any time.
C12_OneTaskPerProject ==
    \A t, u \in TaskIds :
        (/\ t # u
         /\ tasks[t].kind \in {"run", "continue"} /\ tasks[u].kind \in {"run", "continue"}
         /\ tasks[t].project = tasks[u].project
         /\ Executing(t)) => ~Executing(u)

\* The stored entries of one type of a project, as positions of its list.
EntriesOf(p, ty) ==
    {i \in DOMAIN artifacts_db[p] : heap[p][artifacts_db[p][i]].type = ty}

\* C13: a stored entry keeps its status, version, content and review notes
\* in every step; a step changes the store only by appending entries.
C13_StoredImmutable ==
    [][\A p \in ProjectIds : \A i \in DOMAIN artifacts_db[p] :
          /\ i \in DOMAIN artifacts_db'[p]
          /\ artifacts_db'[p][i] = artifacts_db[p][i]
          /\ LET old == heap[p][artifacts_db[p][i]]
                 new == heap'[p][artifacts_db[p][i]]
             IN  /\ new.status = old.status
                 /\ new.version = old.version
                 /\ new.content = old.content
                 /\ new.review_notes = old.review_notes
      ]_vars

\* C14: the versions of the stored entries of each project and type increase
\* strictly in insertion order, so no two entries share a version.
C14_VersionsIncrease ==
    \A p \in ProjectIds, ty \in ArtifactTypes :
        \A i, j \in EntriesOf(p, ty) :
            i < j => heap[p][artifacts_db[p][i]].version
                        < heap[p][artifacts_db[p][j]].version

\* C16: for each project and type at most one stored artifact is approved.
C16_OneApproved ==
    \A p \in ProjectIds, ty \in ArtifactTypes :
        Cardinality({artifacts_db[p][i] : i \in
                        {k \in EntriesOf(p, ty) :
                            heap[p][artifacts_db[p][k]].status = APPROVED}}) <= 1

\* C17: a project whose status is past QUESTIONS has no paused context.
C17_PausedContextRemoved ==
    \A p \in DOMAIN projects_db :
        projects_db[p].status \in {STRATEGY, HYPOTHESES, COPYWRITING, DESIGN, COMPLETED}
           => p \notin DOMAIN waiting_projects

\* C15: a lookup of the latest artifact of a type answers "absent" when the
\* project has no artifact of the type, and otherwise with a stored artifact
\* of that project and type whose version no other stored artifact of the
\* type exceeds, whatever the statuses and the order of saving.
C15_LatestIsMaximal ==
    [][\A p \in ProjectIds, ty \in ArtifactTypes :
          get_artifact_by_type(p, ty) =>
            LET r == reply'.artifact
            IN  IF EntriesOf(p, ty) = {}
                THEN r = 0 /\ reply'.code = 404
                ELSE /\ reply'.code = 200
                     /\ \E i \in EntriesOf(p, ty) : artifacts_db[p][i] = r
                     /\ heap[p][r].project_id = p /\ heap[p][r].type = ty
                     /\ \A i \in EntriesOf(p, ty) :
                           heap[p][artifacts_db[p][i]].version <= heap[p][r].version
      ]_vars

\* Versions 3, 1 and 2 of one type saved in that order, the first not
\* approved, and the lookup answered with version 3.
C15_Witness ==
    /\ Len(artifacts_db["p1"]) = 3
    /\ \A i \in 1..3 : heap["p1"][artifacts_db["p1"][i]].type = "copy"
    /\ heap["p1"][artifacts_db["p1"][1]].version = 3
    /\ heap["p1"][artifacts_db["p1"][1]].status = REVISION
    /\ heap["p1"][artifacts_db["p1"][2]].version = 1
    /\ heap["p1"][artifacts_db["p1"][3]].version = 2
    /\ heap["p1"][artifacts_db["p1"][3]].status = APPROVED
    /\ reply.op = "get" /\ reply.project = "p1" /\ reply.type = "copy"
    /\ reply.code = 200 /\ reply.artifact = artifacts_db["p1"][1]

\* C18: when a resumption has started and waits for the strategist, the
\* latest questions artifact of the project is approved and its content
\* carries the interview mapped from the submitted answers and
\* all_answered = true.
C18_QuestionsAnswered ==
    [][\A t \in TaskIds :
          ContinueStart(t) =>
            LET p == tasks[t].project
                after == [projects_db |-> projects_db', artifacts_db |-> artifacts_db',
                          heap |-> heap', waiting_projects |-> waiting_projects']
                qa == get_latest_artifact(after, p, "questions")
            IN  /\ tasks'[t].pc = "create" /\ tasks'[t].stg = 3 /\ tasks'[t].calls = 1
                /\ qa # 0
                /\ heap'[p][qa].status = APPROVED
                /\ "interview" \in DOMAIN heap'[p][qa].content
                /\ heap'[p][qa].content.interview
                      = parse_answers_to_interview(tasks[t].answers)
                /\ "all_answered" \in DOMAIN heap'[p][qa].content
                /\ heap'[p][qa].content.all_answered = TRUE
      ]_vars

\* A resumption with a budget answer waits for the first strategy, the
\* questions artifact approved and carrying the budget.
C18_Witness ==
    \E t \in TaskIds :
        LET p == tasks[t].project
            qa == get_latest_artifact(World, p, "questions")
        IN  /\ tasks[t].kind = "continue" /\ tasks[t].pc = "create"
            /\ tasks[t].stg = 3 /\ tasks[t].calls = 1
            /\ tasks[t].answers = [budget |-> "30000"]
            /\ qa # 0
            /\ heap[p][qa].status = APPROVED
            /\ heap[p][qa].content.interview.budget_monthly = <<30000>>
            /\ heap[p][qa].content.all_answered
            /\ heap[p][qa].content.questions = <<"q1", "q2">>

\* C19: a project in FAILED leaves that status only in a step in which
\* start_pipeline is accepted for it.
C19_FailedAbsorbing ==
    [][\A p \in DOMAIN projects_db :
          (projects_db[p].status = FAILED /\ projects_db'[p].status # FAILED)
             => /\ start_pipeline(p)
                /\ reply' = [op |-> "start", project |-> p, code |-> 200]
      ]_vars

\* The pipeline_complete events a task has emitted.
Completions(tk) == {i \in DOMAIN tk.events : tk.events[i].type = "pipeline_complete"}

\* A task that has returned from the Design stage.
FinishedDesign(tk) ==
    /\ tk.pc = "done"
    /\ \E i \in DOMAIN tk.events :
          tk.events[i].type = "stage_start" /\ tk.events[i].stage = 6

\* C20: a run or resumption emits pipeline_complete exactly once if it
\* finishes Design and never otherwise (not when it fails, pauses or is
\* still running); the event carries the project id, is the last event of
\* the task and so follows its stage_start events of stages 3 to 6, and in
\* the step that emits it the project's status is COMPLETED.
C20_CompleteOnce ==
    [][\A t \in DOMAIN tasks' :
          LET tk == tasks'[t]
              n == Cardinality(Completions(tk))
          IN  tk.kind \in {"run", "continue"} =>
                /\ n = IF FinishedDesign(tk) THEN 1 ELSE 0
                /\ n = 1 =>
                      /\ Completions(tk) = {Len(tk.events)}
                      /\ tk.events[Len(tk.events)].project_id = tk.project
                      /\ \A stg \in 3..6 :
                            \E i \in 1..(Len(tk.events) - 1) :
                               /\ tk.events[i].type = "stage_start"
                               /\ tk.events[i].stage = stg
                /\ (n = 1 /\ (t \notin DOMAIN tasks
                                \/ Completions(tasks[t]) = {}))
                      => projects_db'[tk.project].status = COMPLETED
      ]_vars

\* A task that went through the banner loop has completed: its only
\* completion event is its last event and the project is COMPLETED.
C20_Witness ==
    \E t \in TaskIds :
        /\ tasks[t].pc = "done"
        /\ \E l \in DOMAIN tasks[t].loops : tasks[t].loops[l].stg = 6
        /\ Cardinality(Completions(tasks[t])) = 1
        /\ tasks[t].events[Len(tasks[t].events)].type = "pipeline_complete"
        /\ projects_db[tasks[t].project].status = COMPLETED

\* The events the tasks emit in a step, in emission order.
Emitted ==
    IF \E t \in DOMAIN tasks : Len(tasks'[t].events) > Len(tasks[t].events)
    THEN LET t == CHOOSE u \in DOMAIN tasks : Len(tasks'[u].events) > Len(tasks[u].events)
         IN  SubSeq(tasks'[t].events, Len(tasks[t].events) + 1, Len(tasks'[t].events))
    ELSE <<>>

\* C21: in every step, each registered observer, raising or not, receives
\* each event the step emits exactly once, in emission order, and for each
\* event the observers are called in registration order; and a task raises
\* only in a step in which an external call has failed, never because of an
\* observer.
C21_ObserversIsolated ==
    [][LET n == Len(event_callbacks)
           base == CallCount(event_callbacks)
       IN  /\ Len(event_callbacks') = n =>
                \A i \in 1..n :
                   /\ event_callbacks'[i].kind = event_callbacks[i].kind
                   /\ event_callbacks'[i].calls =
                         event_callbacks[i].calls \o
                            [k \in 1..Len(Emitted) |->
                                [event |-> Emitted[k], seq |-> base + (k - 1) * n + i]]
           /\ \A t \in DOMAIN tasks :
                (tasks'[t].pc = "raised" /\ tasks[t].pc # "raised")
                   => failures' = failures + 1
      ]_vars

\* A raising observer registered before a recording one, and a run that
\* has completed: the recording observer holds every event of the run in
\* emission order.
C21_Witness ==
    /\ Len(event_callbacks) = 2
    /\ event_callbacks[1].kind = "raises" /\ event_callbacks[2].kind = "records"
    /\ Len(tasks) = 1 /\ tasks[1].pc = "done"
    /\ projects_db[tasks[1].project].status = COMPLETED
    /\ Len(tasks[1].events) > 4
    /\ [k \in 1..Len(event_callbacks[2].calls) |-> event_callbacks[2].calls[k].event]
          = tasks[1].events

\* A strategy none of whose enabled platforms requires visual assets.
NoVisualPlatform(strategy) ==
    \A pl \in strategy.platforms :
        pl.enabled => pl.platform \in {"telegram_ads", "telegram_seeding"}

\* C22: when the copywriting loop of a task returns and the accepted
\* strategy has no enabled platform that requires visual assets, the same
\* step runs the Design stage without a banner loop and without an error:
\* the banner set is empty with count 0, no banners artifact is saved, the
\* task emits stage_start of Design and pipeline_complete and returns, and
\* the project is COMPLETED.
C22_NoVisualDesign ==
    [][\A t \in DOMAIN tasks :
          (/\ tasks[t].stg = 5 /\ tasks[t].pc = "review"
           /\ Len(tasks'[t].loops) > Len(tasks[t].loops)
           /\ NoVisualPlatform(tasks[t].strategy))
          => LET tk == tasks'[t]
                 p == tk.project
                 n == Len(tk.events)
             IN  /\ tk.pc = "done"
                 /\ tk.banners = [kind |-> "banners", n |-> 0, total_count |-> 0]
                 /\ tk.events[n - 1] = [type |-> "stage_start", stage |-> 6,
                                        name |-> "design"]
                 /\ tk.events[n].type = "pipeline_complete"
                 /\ \A i \in 1..n : tk.events[i].type # "pipeline_error"
                 /\ \A l \in DOMAIN tk.loops : tk.loops[l].stg # 6
                 /\ \A i \in DOMAIN artifacts_db'[p] :
                       heap'[p][artifacts_db'[p][i]].type # "banners"
                 /\ projects_db'[p].status = COMPLETED
                 /\ projects_db'[p].current_stage = 7
      ]_vars

\* A task has completed under a strategy that lists vk_ads disabled next to
\* telegram_ads, with the empty banner set.
C22_Witness ==
    \E t \in TaskIds :
        /\ tasks[t].pc = "done"
        /\ tasks[t].strategy.kind = "strategy"
        /\ tasks[t].strategy.platforms
              = {Platform("vk_ads", FALSE), Platform("telegram_ads", TRUE)}
        /\ tasks[t].banners.total_count = 0
        /\ projects_db[tasks[t].project].status = COMPLETED

\* The request of the loop a task is in carries value v under key k.
Threaded(tk, k, v) == k \in DOMAIN tk.req.context /\ tk.req.context[k] = v

\* The loops of a task are those of stages 3, 4, ... in order, one each; the
\* request of the loop it is in carries the outputs returned before; and a
\* task that has finished Design has run `finished` loops.
StagesInOrder(tk, finished) ==
    LET L == tk.loops
    IN  /\ \A l \in DOMAIN L : L[l].stg = l + 2
        /\ tk.pc \in {"create", "review"} =>
              /\ tk.stg = Len(L) + 3
              /\ tk.stg = 4 => Threaded(tk, "strategy", L[1].output)
              /\ tk.stg = 5 => /\ Threaded(tk, "strategy", L[1].output)
                               /\ Threaded(tk, "hypotheses", L[2].output)
              /\ tk.stg = 6 => /\ Threaded(tk, "strategy", L[1].output)
                               /\ Threaded(tk, "creatives", L[3].output)
        /\ FinishedDesign(tk) => Len(L) = finished

\* C23 as stated: every task that reaches the end has run one loop for each
\* of the four stages, in order, each loop's request carrying the outputs
\* accepted before it.
C23_OneLoopPerStage ==
    \A t \in TaskIds :
        tasks[t].kind \in {"run", "continue"} => StagesInOrder(tasks[t], 4)

\* C23, amended: the loops of a task are those of STRATEGY, HYPOTHESES,
\* COPYWRITING and DESIGN in that order, one each, every request of a loop
\* (first or revision) carrying the outputs accepted before it; a task that
\* reaches the end has run the Design loop exactly when the accepted
\* strategy has an enabled platform that requires visual assets, and
\* otherwise the three loops before it.
C23_OneLoopPerStageWithVisuals ==
    \A t \in TaskIds :
        tasks[t].kind \in {"run", "continue"} =>
            StagesInOrder(tasks[t],
                          IF Len(tasks[t].loops) > 0
                                /\ NoVisualPlatform(tasks[t].loops[1].output)
                          THEN 3 ELSE 4)

\* A task has completed after four loops, the copywriting loop with a
\* revision.
C23_Witness ==
    \E t \in TaskIds :
        /\ FinishedDesign(tasks[t])
        /\ Len(tasks[t].loops) = 4
        /\ tasks[t].loops[3].calls = 2
        /\ projects_db[tasks[t].project].status = COMPLETED

\* C24: a task raises only in the step in which its ingestion, analysis,
\* creation or revision call has failed, never in a step in which a review
\* returns, whatever it returns; a step in which a review returns does not
\* set the project to FAILED; the step in which a task returns leaves the
\* project in QUESTIONS or COMPLETED; and a project is FAILED only if a
\* task of it has raised.
C24_ReviewsNeverFail ==
    [][/\ \A t \in DOMAIN tasks :
            /\ (tasks'[t].pc = "raised" /\ tasks[t].pc # "raised")
                  => /\ tasks[t].pc \in {"parse", "analyze", "create"}
                     /\ failures' = failures + 1
            /\ (tasks[t].pc = "review" /\ tasks'[t] # tasks[t])
                  => /\ tasks'[t].pc \in {"create", "done"}
                     /\ projects_db'[tasks[t].project].status = FAILED
                           => projects_db[tasks[t].project].status = FAILED
            /\ (tasks'[t].pc = "done" /\ tasks[t].pc # "done")
                  => projects_db'[tasks[t].project].status \in {QUESTIONS, COMPLETED}
       /\ \A p \in DOMAIN projects_db' :
            projects_db'[p].status = FAILED
               => \E t \in DOMAIN tasks' :
                     tasks'[t].project = p /\ tasks'[t].pc = "raised"
      ]_vars

\* A task has completed although one of its loops used up its revisions
\* and the review call of another failed.
C24_Witness ==
    \E t \in TaskIds :
        /\ tasks[t].pc = "done"
        /\ projects_db[tasks[t].project].status = COMPLETED
        /\ \E l \in DOMAIN tasks[t].loops : tasks[t].loops[l].exit = "exhausted"
        /\ \E l \in DOMAIN tasks[t].loops : tasks[t].loops[l].exit = "review_failed"

\* C25: a user edit of a type of which the project has an artifact appends
\* exactly one entry, a new artifact of that type with status user_edited,
\* producer "user", the submitted content and the version of the previous
\* latest artifact of the type plus one, and leaves every stored artifact
\* and everything else unchanged.
C25_EditAppends ==
    [][\A p \in ProjectIds, ty \in ArtifactTypes :
          (edit_artifact(p, ty, EditedContent) /\ EntriesOf(p, ty) # {})
          => LET ref == Len(heap[p]) + 1
             IN  /\ reply'.code = 200
                 /\ artifacts_db' = [artifacts_db EXCEPT ![p] = Append(@, ref)]
                 /\ Len(heap'[p]) = ref
                 /\ heap' = [heap EXCEPT ![p] = Append(@, heap'[p][ref])]
                 /\ heap'[p][ref].project_id = p
                 /\ heap'[p][ref].type = ty
                 /\ heap'[p][ref].status = USER_EDITED
                 /\ heap'[p][ref].agent_name = "user"
                 /\ heap'[p][ref].content = EditedContent
                 /\ \E i \in EntriesOf(p, ty) :
                       /\ heap'[p][ref].version = heap[p][artifacts_db[p][i]].version + 1
                       /\ \A j \in EntriesOf(p, ty) :
                             heap[p][artifacts_db[p][j]].version
                                <= heap[p][artifacts_db[p][i]].version
                 /\ UNCHANGED <<projects_db, waiting_projects, tasks, event_callbacks>>
      ]_vars

\* Versions 2 and 1 of a type were saved in that order and an edit has
\* appended version 3.
C25_Witness ==
    /\ Len(artifacts_db["p1"]) = 3
    /\ reply = [op |-> "edit", project |-> "p1", code |-> 200]
    /\ \A i \in 1..3 : heap["p1"][artifacts_db["p1"][i]].type = "copy"
    /\ heap["p1"][artifacts_db["p1"][1]].version = 2
    /\ heap["p1"][artifacts_db["p1"][1]].status = APPROVED
    /\ heap["p1"][artifacts_db["p1"][2]].version = 1
    /\ heap["p1"][artifacts_db["p1"][3]].version = 3
    /\ heap["p1"][artifacts_db["p1"][3]].status = USER_EDITED
    /\ heap["p1"][artifacts_db["p1"][3]].agent_name = "user"

\* C26: an edit of a type of which the project has no artifact, and a
\* regenerate, variation or generate-more request for a project without a
\* copy artifact (for generate-more, without a copy or without a strategy
\* artifact), is answered with an error and changes nothing but the reply.
C26_MissingArtifactRejected ==
    [][/\ \A p \in ProjectIds, ty \in ArtifactTypes :
            (edit_artifact(p, ty, EditedContent) /\ EntriesOf(p, ty) = {})
            => /\ reply' = [op |-> "edit", project |-> p, code |-> 404]
               /\ UNCHANGED <<projects_db, artifacts_db, heap, waiting_projects,
                              tasks, event_callbacks>>
       /\ \A kind \in RefinementKinds, p \in ProjectIds :
            (/\ refinement_request(kind, p)
             /\ \/ EntriesOf(p, "copy") = {}
                \/ kind = "generate_more" /\ EntriesOf(p, "strategy") = {})
            => /\ reply'.op = kind /\ reply'.project = p
               /\ reply'.code \in {400, 404, 500}
               /\ UNCHANGED <<projects_db, artifacts_db, heap, waiting_projects,
                              tasks, event_callbacks>>
      ]_vars

\* A generate-more request has been rejected for a project that has a
\* strategy artifact and no copy artifact.
C26_Witness ==
    /\ reply.op = "generate_more" /\ reply.project = "p1" /\ reply.code = 400
    /\ EntriesOf("p1", "strategy") # {}
    /\ EntriesOf("p1", "copy") = {}

\* The largest version among the stored copy artifacts of a project.
LatestCopyVersion(p) ==
    LET vs == {heap[p][artifacts_db[p][i]].version : i \in EntriesOf(p, "copy")}
    IN  CHOOSE v \in vs : \A u \in vs : u <= v

\* C27: a regenerate, variation or generate-more request for a project that
\* is not COMPLETED is answered with an error and changes nothing but the
\* reply; and when the generation call of an accepted request succeeds, the
\* store gains one entry, a copy artifact whose version is the previous
\* latest copy version plus one, while an entry with the previous latest
\* version is still in the project's list.
C27_RefinementAddsVersion ==
    [][/\ \A kind \in RefinementKinds, p \in ProjectIds :
            (/\ refinement_request(kind, p)
             /\ (p \notin DOMAIN projects_db \/ projects_db[p].status # COMPLETED))
            => /\ reply'.op = kind /\ reply'.code \in {400, 404}
               /\ UNCHANGED <<projects_db, artifacts_db, heap, waiting_projects,
                              tasks, event_callbacks>>
       /\ \A t \in DOMAIN tasks :
            (/\ tasks[t].pc = "refine" /\ tasks'[t].pc = "done"
             /\ reply'.code = 200)
            => LET p == tasks[t].project
                   n == Len(artifacts_db[p])
                   prev == LatestCopyVersion(p)
               IN  /\ Len(artifacts_db'[p]) = n + 1
                   /\ heap'[p][artifacts_db'[p][n + 1]].type = "copy"
                   /\ heap'[p][artifacts_db'[p][n + 1]].version = prev + 1
                   /\ \E i \in 1..n :
                         /\ heap'[p][artifacts_db'[p][i]].type = "copy"
                         /\ heap'[p][artifacts_db'[p][i]].version = prev
      ]_vars
\* The operation of a step belongs to project a: one of its tasks or
\* suspended handlers moved, a task or a handler was added for it, or it
\* was edited.
ActsFor(a) ==
    \/ \E t \in 1..Len(tasks) : tasks[t].project = a /\ tasks'[t] # tasks[t]
    \/ Len(tasks') > Len(tasks) /\ tasks'[Len(tasks')].project = a
    \/ \E ty \in ArtifactTypes : edit_artifact(a, ty, EditedContent)

\* Everything stored for project b is as it was.
Untouched(b) ==
    /\ (b \in DOMAIN projects_db) = (b \in DOMAIN projects_db')
    /\ b \in DOMAIN projects_db => projects_db'[b] = projects_db[b]
    /\ artifacts_db'[b] = artifacts_db[b]
    /\ heap'[b] = heap[b]
    /\ (b \in DOMAIN waiting_projects) = (b \in DOMAIN waiting_projects')
    /\ b \in DOMAIN waiting_projects => waiting_projects'[b] = waiting_projects[b]

\* C28: every step of a run, a resumption, an edit or a refinement of one
\* project leaves the status, stage index, settings, error message, stored
\* artifacts and paused context of every other project unchanged, however
\* the operations of the two projects interleave.
C28_ProjectsIsolated ==
    [][\A a, b \in ProjectIds : (a # b /\ ActsFor(a)) => Untouched(b)]_vars

\* Both projects have stored artifacts, the second is paused with its context
\* kept, and the first has been resumed, edited and refined to the end.
C28_Witness ==
    /\ DOMAIN projects_db = ProjectIds
    /\ "p2" \in DOMAIN waiting_projects /\ projects_db["p2"].status = QUESTIONS
    /\ artifacts_db["p2"] # <<>>
    /\ projects_db["p1"].status = COMPLETED
    /\ \E i \in 1..Len(heap["p1"]) : heap["p1"][i].status = USER_EDITED
    /\ \E t \in Refinements : tasks[t].project = "p1" /\ tasks[t].pc = "done"


\* A payload value that int() does not convert.
Unparsable(answers, k) == k \in DOMAIN answers /\ int(answers[k]).raises # "none"

\* C29: a budget or target_cpa of the answers that is not a number never
\* makes the mapping to the interview fail: the first step of the
\* resumption leaves that interview field unset and takes the project to
\* STRATEGY, not to FAILED.
C29_MalformedNumberDropped ==
    [][\A t \in 1..Len(tasks) :
          (ContinueStart(t) /\ (Unparsable(tasks[t].answers, "budget")
                                \/ Unparsable(tasks[t].answers, "target_cpa")))
          => LET p == tasks[t].project
             IN  /\ projects_db'[p].status = STRATEGY
                 /\ tasks'[t].pc # "raised"
                 /\ Unparsable(tasks[t].answers, "budget")
                       => tasks'[t].interview.budget_monthly = <<>>
                 /\ Unparsable(tasks[t].answers, "target_cpa")
                       => tasks'[t].interview.target_cpa = <<>>]_vars

\* The same for the values whose conversion raises an exception that the
\* except clauses name.
C29_CaughtNumberDropped ==
    [][\A t \in 1..Len(tasks) :
          (/\ ContinueStart(t)
           /\ \E k \in {"budget", "target_cpa"} : Unparsable(tasks[t].answers, k)
           /\ ~parse_raises(tasks[t].answers))
          => LET p == tasks[t].project
             IN  /\ projects_db'[p].status = STRATEGY
                 /\ tasks'[t].pc # "raised"
                 /\ Unparsable(tasks[t].answers, "budget")
                       => tasks'[t].interview.budget_monthly = <<>>
                 /\ Unparsable(tasks[t].answers, "target_cpa")
                       => tasks'[t].interview.target_cpa = <<>>]_vars

\* A resumption with a malformed budget went on to the STRATEGY stage.
C29_Witness ==
    \E t \in 1..Len(tasks) :
       /\ tasks[t].kind = "continue" /\ tasks[t].pc # "scheduled"
       /\ Unparsable(tasks[t].answers, "budget")
       /\ tasks[t].interview.budget_monthly = <<>>
       /\ projects_db[tasks[t].project].status = STRATEGY

\* Task t has stopped (returned or raised) and left its project waiting for
\* answers, completed or failed.
Stopped(t) ==
    /\ t \in TaskIds
    /\ tasks[t].pc \in {"done", "raised"}
    /\ projects_db[tasks[t].project].status \in {QUESTIONS, COMPLETED, FAILED}

\* A project is in a stage in which a task works.
Working(p) ==
    /\ p \in DOMAIN projects_db
    /\ projects_db[p].status \in {ANALYZING, STRATEGY, HYPOTHESES, COPYWRITING, DESIGN}

\* A project waits for answers, is completed or has failed.
Resting(p) ==
    /\ p \in DOMAIN projects_db
    /\ projects_db[p].status \in {QUESTIONS, COMPLETED, FAILED}

\* C30: when every external call returns, every pipeline task that was
\* scheduled for a project eventually stops, the project then being in
\* QUESTIONS, COMPLETED or FAILED, and a project that is in ANALYZING,
\* STRATEGY, HYPOTHESES, COPYWRITING or DESIGN eventually leaves these stages
\* for one of the three.
C30_EveryTaskStops ==
    /\ \A t \in 1..MaxTasks : (t \in TaskIds) ~> Stopped(t)
    /\ \A p \in ProjectIds :
          Working(p) ~> Resting(p)

\* A run and its resumption have both stopped, the resumption after a loop
\* that used up its revisions.
C30_Witness ==
    /\ Len(tasks) = 2 /\ Stopped(1) /\ Stopped(2)
    /\ tasks[2].kind = "continue"
    /\ \E i \in DOMAIN tasks[2].loops : tasks[2].loops[i].exit = "exhausted"

\* C31: the first step of a resumption stores settings that hold the
\* interview's values for every payload: the budget of the interview, set
\* or not, its primary goal followed by its secondary goals, and its
\* audience description.
C31_SettingsFromInterview ==
    [][\A t \in 1..Len(tasks) :
          ContinueStart(t) =>
            LET interview == parse_answers_to_interview(tasks[t].answers)
                settings == projects_db'[tasks[t].project].settings
            IN  /\ settings.set
                /\ settings.budget_monthly = interview.budget_monthly
                /\ settings.goals
                      = <<interview.primary_goal>> \o interview.secondary_goals
                /\ settings.target_audience_description
                      = interview.target_audience_description]_vars

\* What the resumptions that go on to the strategy stage store: the budget
\* of the interview when it is a number other than zero and 50000
\* otherwise, and the goals and the audience description of the interview.
C31_SettingsWithDefaultBudget ==
    [][\A t \in 1..Len(tasks) :
          (ContinueStart(t) /\ tasks'[t].pc # "raised") =>
            LET interview == parse_answers_to_interview(tasks[t].answers)
                settings == projects_db'[tasks[t].project].settings
            IN  /\ settings.set
                /\ settings.budget_monthly
                      = IF interview.budget_monthly \in {<<>>, <<0>>}
                        THEN <<50000>> ELSE interview.budget_monthly
                /\ settings.goals
                      = <<interview.primary_goal>> \o interview.secondary_goals
                /\ settings.target_audience_description
                      = interview.target_audience_description]_vars

C33_ReviseRequest ==
    [][\A t \in 1..Len(tasks) :
          (tasks[t].pc = "review" /\ tasks'[t].pc = "create"
             /\ tasks'[t].stg = tasks[t].stg) =>
            LET review == tasks'[t].reviews[Len(tasks'[t].reviews)].output
                req == tasks'[t].req
            IN  /\ Len(tasks'[t].reviews) = Len(tasks[t].reviews) + 1
                /\ ~Accepts(review)
                /\ req.task_type = "revise"
                /\ req.input_data = tasks[t].output
                /\ req.input_data # NoOutput
                /\ req.context = tasks[t].req.context
                /\ req.feedback = IF review.revision_instructions \in {"none", ""}
                                  THEN review.feedback
                                  ELSE review.revision_instructions]_vars

\* A second revision is requested with the instructions of the second
\* review, the first review having carried none.
C33_Witness ==
    \E t \in 1..Len(tasks) :
       /\ tasks[t].pc = "create" /\ tasks[t].revisions = 2
       /\ tasks[t].reviews[1].output.revision_instructions = "none"
       /\ tasks[t].reviews[2].output.revision_instructions = "instructions"
       /\ tasks[t].req.feedback = "instructions"
       /\ tasks[t].req.context # <<>>

\* C34: the generator of the status stream reports the status and the stage
\* index the project has at that moment, and it ends only after it has
\* reported COMPLETED or FAILED: the status it reported last is then the
\* project's status, COMPLETED or FAILED.
C34_StreamEndsOnTerminal ==
    /\ [][stream'.last # stream.last =>
             /\ stream'.last.status = projects_db[stream.project].status
             /\ stream'.last.stage = projects_db[stream.project].current_stage]_vars
    /\ [](stream.pc = "ended" => stream.last.status \in {COMPLETED, FAILED})

\* The stream ends only in a step in which the project is COMPLETED or
\* FAILED, so never while the project waits for answers.
C34_EndsWhenTerminal ==
    [][(stream'.pc = "ended" /\ stream.pc # "ended")
         => projects_db[stream.project].status \in {COMPLETED, FAILED}]_vars

\* C35: a start request for a project in CREATED or FAILED is accepted, sets
\* the status to ANALYZING and schedules one run; for a project in any other
\* status it is rejected, schedules nothing and leaves the project's status,
\* stage index and artifacts as they were.
C35_StartOnlyFromCreatedOrFailed ==
    [][\A p \in DOMAIN projects_db :
          start_pipeline(p) =>
            IF projects_db[p].status \in {CREATED, FAILED}
            THEN /\ reply'.code = 200
                 /\ projects_db'[p].status = ANALYZING
                 /\ Len(tasks') = Len(tasks) + 1
                 /\ SubSeq(tasks', 1, Len(tasks)) = tasks
                 /\ tasks'[Len(tasks')].kind = "run"
                 /\ tasks'[Len(tasks')].project = p
                 /\ tasks'[Len(tasks')].pc = "scheduled"
            ELSE /\ reply'.code = 400
                 /\ tasks' = tasks
                 /\ projects_db' = projects_db
                 /\ artifacts_db' = artifacts_db /\ heap' = heap]_vars

\* A start request is rejected for a completed project whose first run
\* failed and was restarted by an accepted start request.
C35_Witness ==
    /\ reply = [op |-> "start", project |-> "p1", code |-> 400]
    /\ projects_db["p1"].status = COMPLETED
    /\ Len(tasks) >= 2
    /\ tasks[1].kind = "run" /\ tasks[1].pc = "raised"
    /\ tasks[2].kind = "run" /\ tasks[2].pc = "done"

\* C36: a project that is COMPLETED keeps this status and its stage index
\* through every later step of a task and every later request.
C36_CompletedTerminal ==
    [][\A p \in DOMAIN projects_db :
          projects_db[p].status = COMPLETED =>
             /\ projects_db'[p].status = COMPLETED
             /\ projects_db'[p].current_stage = projects_db[p].current_stage]_vars

\* The ordinal of a status in the pipeline.
Ordinal(st) ==
    CASE st = CREATED -> 0 [] st = ANALYZING -> 1 [] st = QUESTIONS -> 2
      [] st = STRATEGY -> 3 [] st = HYPOTHESES -> 4 [] st = COPYWRITING -> 5
      [] st = DESIGN -> 6 [] st = COMPLETED -> 7 [] OTHER -> 0

\* C37: the stage index of a project that is not FAILED is the ordinal of
\* its status, and the step that sets a project to FAILED leaves the stage
\* index of the stage in which the failure occurred.
C37_StageIsOrdinal ==
    /\ [](\A p \in DOMAIN projects_db :
            projects_db[p].status # FAILED
               => projects_db[p].current_stage = Ordinal(projects_db[p].status))
    /\ [][\A p \in DOMAIN projects_db :
             (projects_db'[p].status = FAILED /\ projects_db[p].status # FAILED)
                => projects_db'[p].current_stage = Ordinal(projects_db[p].status)]_vars

\* C38: a project has an error message exactly when its status is FAILED;
\* a project that failed and was restarted has none while it runs, waits
\* for answers or is completed.
C38_ErrorIffFailed ==
    \A p \in DOMAIN projects_db :
       (projects_db[p].error_message # "none") <=> (projects_db[p].status = FAILED)

\* A project has an error message only after it has failed: a task of it
\* has raised.
C38_ErrorOnlyAfterFailure ==
    \A p \in DOMAIN projects_db :
       /\ projects_db[p].status = FAILED => projects_db[p].error_message # "none"
       /\ projects_db[p].error_message # "none"
             => \E t \in 1..Len(tasks) : tasks[t].project = p /\ tasks[t].pc = "raised"

\* The types of the artifacts the revision loops write.
LoopTypes == {StageType(stg) : stg \in 3..6}

\* C39: among the events of one revision loop, the artifact_revision events
\* carry the numbers 1, 2, 3, ... in order, none above max_revisions; there
\* is at most one artifact_approved event and it is the last event of the
\* loop; and the step in which a review call fails emits neither event.
C39_LoopEventsOrdered ==
    /\ [](\A t \in 1..Len(tasks) : \A atype \in LoopTypes :
            LET tk == tasks[t]
                revised == LoopEvents(tk, "artifact_revision", atype)
                approved == LoopEvents(tk, "artifact_approved", atype)
            IN  /\ \A i \in revised :
                      /\ tk.events[i].revision = Cardinality({j \in revised : j <= i})
                      /\ tk.events[i].revision <= max_revisions
                /\ Cardinality(approved) <= 1
                /\ \A i \in approved : \A j \in revised : j < i)
    /\ [][\A t \in 1..Len(tasks) :
             (tasks[t].pc = "review" /\ tasks'[t] # tasks[t]
                /\ failures' = failures + 1)
             => \A i \in (DOMAIN tasks'[t].events) \ (DOMAIN tasks[t].events) :
                   tasks'[t].events[i].type
                      \notin {"artifact_revision", "artifact_approved"}]_vars

\* A run with a loop that was revised twice and then approved and a later
\* loop whose first review call failed.
C39_Witness ==
    \E t \in 1..Len(tasks) :
       LET tk == tasks[t]
       IN  /\ Cardinality(LoopEvents(tk, "artifact_revision", "strategy")) = 2
           /\ Cardinality(LoopEvents(tk, "artifact_approved", "strategy")) = 1
           /\ \E i \in DOMAIN tk.loops :
                 /\ tk.loops[i].exit = "review_failed" /\ tk.loops[i].calls = 1
                 /\ LoopEvents(tk, "artifact_revision", StageType(tk.loops[i].stg)) = {}
                 /\ LoopEvents(tk, "artifact_approved", StageType(tk.loops[i].stg)) = {}

\* The entry of a project and type that was saved last.
LastSaved(p, ty) ==
    artifacts_db[p][CHOOSE i \in EntriesOf(p, ty) : \A j \in EntriesOf(p, ty) : j <= i]

C40_LatestIsLastSavedWhenIncreasing ==
    \A p \in ProjectIds, ty \in ArtifactTypes :
        (/\ EntriesOf(p, ty) # {}
         /\ \A i, j \in EntriesOf(p, ty) :
               i < j => heap[p][artifacts_db[p][i]].version
                           < heap[p][artifacts_db[p][j]].version)
           => get_latest_artifact(World, p, ty) = LastSaved(p, ty)

====
